---- MODULE Spec2Model ----
(***************************************************************************)
(* The slasher watchdog of crates/slasher/src/lib.rs: SlashService::run,   *)
(* process_blocks and the reducers and scheduler it calls, over a chain    *)
(* that emits RequestLocked / RequestFulfilled / ProverSlashed events and  *)
(* a durable order store (module db, modelled from its documented          *)
(* contract).                                                              *)
(***************************************************************************)
EXTENDS Integers, Sequences, FiniteSets, TLC

\* ------------------------------------------------------------------ bounds
\* Highest block number the chain reaches.
MaxBlock == 2
\* SlashServiceConfig.retries of the modelled deployment.
Retries == 1
\* SlashServiceConfig.max_block_range of the modelled deployment.
MaxBlockRange == 2

\* The largest args.count of the order generator; its loop without a count is
\* followed for MaxCount + 1 iterations.
MaxCount == 4

\* How far behind the tip an RPC answer to get_block_number may be.
HeadLags == {0, 1}
\* The request ids seen on chain.
RequestIds == {1, 2}
\* The provers that lock requests; SkipAddresses is config.skip_addresses.
Provers == {"A", "B"}
SkipAddresses == {"B"}
\* The (lockTimeout, timeout) pairs of the offers that get locked.
Offers == {<<0, 0>>, <<0, 1>>, <<1, 1>>}

\* Option<u64>::None of the stored cursor and of starting_block.
None == -1

VARIABLES
    head,         \* chain tip (block number); block 0 is the genesis block
    logs,         \* logs[b]: the event emitted in block b, b \in 1..head
    orders,       \* table orders: request_id -> (expires_at, lock_expires_at)
    last_block,   \* table meta, key last_block: the persisted cursor, or None
    pc,           \* where run is: "init", "start", "tick", a phase of process_blocks, "error", "done"
    starting_block, \* run's argument starting_block, None once from_block is set
    from_block,   \* run's local from_block
    chunk_to,     \* run's local chunk_to of the tick in progress
    attempt,      \* run's local attempt
    expired,      \* process_expired_requests: the due requests not yet dispatched
    err,          \* the Err(e) process_blocks returned to run, "none" otherwise
    result,       \* the error run returned, "none" while it has not returned
    phases,       \* phases of process_blocks that returned Ok in the tick in progress
    submitted,    \* request ids passed to slash in the pass in progress, in order
    outcome,      \* what the last slash of the pass in progress returned
    applied,      \* the log a reducer iteration applied last, on its own, to the store
    raced,        \* what another participant did to the request the pass dispatches
                  \* next since the pass selected it: "-", "slashed" or "fulfilled"
    gen,          \* the order generator's run: its position, args.count, i, and what it did
    skipped,      \* the last iteration of run's loop read a head below from_block and went on
    inflight      \* the request whose slash transaction a stopped process left in flight, or None

vars == <<inflight, skipped, gen, applied, raced, head, logs, orders, last_block, pc, starting_block, from_block, chunk_to, attempt,
          expired, err, result, phases, submitted, outcome>>

chainVars == <<head, logs>>
storeVars == <<orders, last_block>>

\* ------------------------------------------------------------------ chain
\* Header timestamp of block b (seconds).
BlockTimestamp(b) == b

NoEvent == [kind |-> "None", requestId |-> 0, prover |-> "-",
            rampUpStart |-> 0, lockTimeout |-> 0, timeout |-> 0]

LockedEvent(r, p, start, o) ==
    [kind |-> "Locked", requestId |-> r, prover |-> p,
     rampUpStart |-> start, lockTimeout |-> o[1], timeout |-> o[2]]

FulfilledEvent(r) == [NoEvent EXCEPT !.kind = "Fulfilled", !.requestId = r]

SlashedEvent(r) == [NoEvent EXCEPT !.kind = "Slashed", !.requestId = r]

\* Has the chain emitted an event of the kind for request r?
Emitted(kind, r) == \E b \in 1..head : logs[b].kind = kind /\ logs[b].requestId = r

\* The requests the market can still lock: it locks a request once, and not
\* after it was fulfilled (lockRequest reverts with RequestIsFulfilled).
Lockable ==
    {q \in RequestIds :
        ~Emitted("Locked", q) /\ ~Emitted("Fulfilled", q) /\ ~Emitted("Slashed", q)}

\* The events the block mined next, at timestamp ts, may carry: the market
\* emits a request's RequestLocked, RequestFulfilled and ProverSlashed at most
\* once each, and slashes only a locked request (slash reverts with
\* RequestIsNotLocked otherwise). A lock by a skipped prover carries one
\* offer, as its offer is never read.
BlockEvents(ts) ==
    {NoEvent}
    \cup {LockedEvent(r, p, ts, o) :
            r \in Lockable, p \in Provers \ SkipAddresses, o \in Offers}
    \cup {LockedEvent(r, p, ts, CHOOSE o \in Offers : TRUE) :
            r \in Lockable, p \in SkipAddresses}
    \cup {FulfilledEvent(r) : r \in {q \in RequestIds : ~Emitted("Fulfilled", q)}}
    \cup {SlashedEvent(r) :
            r \in {q \in RequestIds : Emitted("Locked", q) /\ ~Emitted("Slashed", q)}}

\* QueryLogs of a filter whose to_block is exclusive: the last block is left out.
RECURSIVE QueryLogsExclusive(_, _, _)
QueryLogsExclusive(kind, from, to) ==
    IF to - 1 < from \/ to - 1 < 1 THEN << >>
    ELSE LET rest == QueryLogsExclusive(kind, from, to - 1)
         IN  IF to - 1 <= head /\ logs[to - 1].kind = kind
             THEN Append(rest, [event |-> logs[to - 1], block_number |-> to - 1])
             ELSE rest

\* Block numbers of [from, to] that carry an event of the kind, ascending:
\* what event_filter.query() returns for the range.
RECURSIVE QueryLogs(_, _, _)
QueryLogs(kind, from, to) ==
    IF to < from \/ to < 1 THEN << >>
    ELSE LET rest == QueryLogs(kind, from, to - 1)
         IN  IF to <= head /\ logs[to].kind = kind
             THEN Append(rest, [event |-> logs[to], block_number |-> to])
             ELSE rest

\* ------------------------------------------------------------------ store
\* AddOrder of a table that, for an existing request_id, adds the new
\* deadlines to the stored ones instead of replacing the row.
AddOrderAccumulates(store, id, expires_at, lock_expires_at) ==
    [r \in DOMAIN store \cup {id} |->
        IF r # id THEN store[r]
        ELSE IF id \in DOMAIN store
             THEN [expires_at |-> store[id].expires_at + expires_at,
                   lock_expires_at |-> store[id].lock_expires_at + lock_expires_at]
             ELSE [expires_at |-> expires_at, lock_expires_at |-> lock_expires_at]]

\* db.add_order: insert, overwriting the row of an existing request_id.
AddOrder(store, id, expires_at, lock_expires_at) ==
    [r \in DOMAIN store \cup {id} |->
        IF r = id THEN [expires_at |-> expires_at, lock_expires_at |-> lock_expires_at]
        ELSE store[r]]

\* db.remove_order: idempotent, a missing row is not an error.
RemoveOrder(store, id) == [r \in DOMAIN store \ {id} |-> store[r]]

\* db.get_order: is there a row (Some) for the request?
HasOrder(store, id) == id \in DOMAIN store

\* DueBefore of a query on the lock deadline instead of the request's expiry.
DueBeforeLockDeadline(store, ts) == {r \in DOMAIN store : store[r].lock_expires_at <= ts}

\* The rows get_expired_orders selects for timestamp ts.
DueBefore(store, ts) == {r \in DOMAIN store : store[r].expires_at <= ts}

\* FirstDue of a query ordered by request_id alone.
FirstDueByIdOnly(store, S) == CHOOSE r \in S : \A q \in S : r <= q

\* The first of a non-empty set of due rows: least expires_at, then least id.
FirstDue(store, S) ==
    CHOOSE r \in S : \A q \in S :
        \/ store[r].expires_at < store[q].expires_at
        \/ store[r].expires_at = store[q].expires_at /\ r <= q

RECURSIVE SortDue(_, _)
SortDue(store, S) ==
    IF S = {} THEN << >>
    ELSE LET r == FirstDue(store, S) IN <<r>> \o SortDue(store, S \ {r})

\* db.get_expired_orders: the ids of the rows with expires_at <= ts, by
\* ascending expires_at, ties by ascending request_id.
GetExpiredOrders(store, ts) == SortDue(store, DueBefore(store, ts))

\* SetLastBlockAccepts of a store that takes any value.
SetLastBlockAcceptsAny(stored, block_number) == TRUE

\* db.set_last_block accepts a value unless it is strictly less than the
\* stored one.
SetLastBlockAccepts(stored, block_number) == block_number >= stored

\* ------------------------------------------------------------------ errors
ServiceError ==
    {"DatabaseError", "BoundlessMarketError", "RpcError", "EventQueryError",
     "TransactionDecodingError", "BlockNumberNotFound", "BlockTimestampNotFound",
     "InsufficientFunds", "MaxRetries", "RequestNotExpired", "SlashRevert"}

\* Irrecoverable with InsufficientFunds left to the recoverable arm.
IrrecoverableFundsRetried(e) ==
    e \in {"DatabaseError", "MaxRetries", "TransactionDecodingError",
           "BlockNumberNotFound", "RequestNotExpired"}

\* Irrecoverable with BlockNumberNotFound left to the recoverable arm.
IrrecoverableBlockNumberRetried(e) ==
    e \in {"DatabaseError", "InsufficientFunds", "MaxRetries",
           "TransactionDecodingError", "RequestNotExpired"}

\* Irrecoverable with SlashRevert returned from run.
IrrecoverableRevertReturned(e) ==
    e \in {"DatabaseError", "InsufficientFunds", "MaxRetries", "TransactionDecodingError",
           "BlockNumberNotFound", "RequestNotExpired", "SlashRevert"}

\* run, the arm "Irrecoverable errors" of the match on process_blocks' error.
Irrecoverable(e) ==
    e \in {"DatabaseError", "InsufficientFunds", "MaxRetries",
           "TransactionDecodingError", "BlockNumberNotFound", "RequestNotExpired"}

\* RetriesExceeded one failure early.
RetriesExceededOffByOne(a) == a >= Retries

\* run, `if attempt > self.config.retries`.
RetriesExceeded(a) == a > Retries

Min(a, b) == IF a <= b THEN a ELSE b

\* ------------------------------------------------------------------ reducers
\* request.expires_at(): rampUpStart + timeout.
ExpiresAt(e) == e.rampUpStart + e.timeout

\* LockExpiresAt counted from the request's expiry instead of rampUpStart.
LockExpiresAtFromExpiry(e) == ExpiresAt(e) + e.lockTimeout

\* process_locked_events: rampUpStart + lockTimeout.
LockExpiresAt(e) == e.rampUpStart + e.lockTimeout

\* ApplyLocked of a reducer that, for a request it already tracks, pushes the
\* row's deadline back by the offer's timeout instead of overwriting the row.
ApplyLockedRenews(store, e) ==
    IF e.prover \in SkipAddresses THEN store
    ELSE IF HasOrder(store, e.requestId)
         THEN AddOrder(store, e.requestId,
                       store[e.requestId].expires_at + e.timeout, LockExpiresAt(e))
         ELSE AddOrder(store, e.requestId, ExpiresAt(e), LockExpiresAt(e))

\* ApplyLocked of a reducer without the skip check.
ApplyLockedNoSkip(store, e) ==
    AddOrder(store, e.requestId, ExpiresAt(e), LockExpiresAt(e))

\* process_locked_events, one iteration of the loop over the logs.
ApplyLocked(store, e) ==
    IF e.prover \in SkipAddresses THEN store
    ELSE AddOrder(store, e.requestId, ExpiresAt(e), LockExpiresAt(e))

\* FulfilledInLock of a reducer that removes on any fulfilment.
FulfilledInLockAlways(current_ts, lock_expires_at) == TRUE

\* FulfilledInLock with the boundary excluded.
FulfilledInLockStrict(current_ts, lock_expires_at) == current_ts < lock_expires_at

\* process_fulfilled_events, `if current_ts <= lock_expires_at`.
FulfilledInLock(current_ts, lock_expires_at) == current_ts <= lock_expires_at

\* process_fulfilled_events, one iteration of the loop over the logs.
ApplyFulfilled(store, e, current_ts) ==
    IF ~HasOrder(store, e.requestId) THEN store
    ELSE IF FulfilledInLock(current_ts, store[e.requestId].lock_expires_at)
         THEN RemoveOrder(store, e.requestId)
         ELSE store

\* ApplySlashed of a reducer that leaves the row to the scheduler.
ApplySlashedKeepsRow(store, e) == store

\* process_slashed_events, one iteration of the loop over the logs.
ApplySlashed(store, e) == RemoveOrder(store, e.requestId)

\* The store after the first n logs of a query have been applied.
RECURSIVE ApplyLogs(_, _, _)
ApplyLogs(store, ls, n) ==
    IF n = 0 THEN store
    ELSE LET prev == ApplyLogs(store, ls, n - 1)
             e    == ls[n].event
         IN  CASE e.kind = "Locked"    -> ApplyLocked(prev, e)
               [] e.kind = "Fulfilled" -> ApplyFulfilled(prev, e, BlockTimestamp(ls[n].block_number))
               [] e.kind = "Slashed"   -> ApplySlashed(prev, e)

\* ------------------------------------------------------------------ slash
\* What boundless_market.slash returns: Ok, a typed MarketError, or another
\* MarketError told apart by its message; for SlashRevert and LogNotEmitted,
\* what the is_slashed query that follows answers.
NoOutcome == [res |-> "-", is_slashed |-> "-"]

SlashMessages ==
    {"RequestIsSlashed", "RequestIsFulfilled", "RequestIsNotExpired",
     "insufficient funds", "gas required exceeds allowance",
     "RequestIsNotLocked", "other"}

SlashOutcomes ==
    {[res |-> r, is_slashed |-> "-"] : r \in {"Ok", "MarketError::RequestIsSlashed"} \cup SlashMessages}
    \cup {[res |-> r, is_slashed |-> q] :
            r \in {"MarketError::SlashRevert", "MarketError::LogNotEmitted"},
            q \in {"true", "false", "error"}}

\* What slash returns for a request another participant has slashed or
\* fulfilled since the pass selected it: the call fails with the market's
\* revert naming the resolution, or the transaction is mined and reverts or
\* emits no log, and is_slashed is asked (its answer can lag the chain or
\* fail; for a fulfilled request it is not true).
RaceOutcomes(how) ==
    IF how = "slashed"
    THEN {o \in SlashOutcomes :
            \/ o.res \in {"MarketError::RequestIsSlashed", "RequestIsSlashed"}
            \/ o.res \in {"MarketError::SlashRevert", "MarketError::LogNotEmitted"}}
    ELSE {o \in SlashOutcomes :
            \/ o.res = "RequestIsFulfilled"
            \/ /\ o.res \in {"MarketError::SlashRevert", "MarketError::LogNotEmitted"}
               /\ o.is_slashed \in {"false", "error"}}

\* err_msg.contains(marker), for messages that carry one marker.
Contains(err_msg, marker) == err_msg = marker

\* Reconcile that never takes a positive is_slashed for a resolution.
ReconcileIgnored(is_slashed) ==
    IF is_slashed = "error" THEN "BoundlessMarketError" ELSE "SlashRevert"

\* Reconcile that takes a failed is_slashed query for a resolution: the row is
\* removed and the pass goes on.
ReconcileErrorRemoves(is_slashed) ==
    IF is_slashed \in {"error", "true"} THEN "remove" ELSE "SlashRevert"

\* Reconcile that gives the request up when is_slashed answers false: the
\* row is removed and the pass goes on.
ReconcileRemovesUnslashed(is_slashed) ==
    IF is_slashed = "error" THEN "BoundlessMarketError" ELSE "remove"

\* process_expired_requests, the arms SlashRevert and LogNotEmitted: what the
\* answer of is_slashed leads to.
Reconcile(is_slashed) ==
    IF is_slashed = "error" THEN "BoundlessMarketError"
    ELSE IF is_slashed = "true" THEN "remove"
    ELSE "SlashRevert"

\* VerdictOfMessage without the arm for RequestIsNotLocked.
VerdictOfMessageNotLockedRetried(err_msg) ==
    IF Contains(err_msg, "RequestIsSlashed") \/ Contains(err_msg, "RequestIsFulfilled")
    THEN "remove"
    ELSE IF Contains(err_msg, "RequestIsNotExpired") THEN "RequestNotExpired"
    ELSE IF Contains(err_msg, "insufficient funds")
            \/ Contains(err_msg, "gas required exceeds allowance")
    THEN "InsufficientFunds"
    ELSE "BoundlessMarketError"

\* VerdictOfMessage that dismisses the request on a message it does not know.
VerdictOfMessageUnknownDismissed(err_msg) ==
    IF Contains(err_msg, "RequestIsSlashed") \/ Contains(err_msg, "RequestIsFulfilled")
    THEN "remove"
    ELSE IF Contains(err_msg, "RequestIsNotExpired") THEN "RequestNotExpired"
    ELSE IF Contains(err_msg, "insufficient funds")
            \/ Contains(err_msg, "gas required exceeds allowance")
    THEN "InsufficientFunds"
    ELSE "remove"

\* process_expired_requests, the arm Err(err): the chain of tests on err_msg.
VerdictOfMessage(err_msg) ==
    IF Contains(err_msg, "RequestIsSlashed") \/ Contains(err_msg, "RequestIsFulfilled")
    THEN "remove"
    ELSE IF Contains(err_msg, "RequestIsNotExpired") THEN "RequestNotExpired"
    ELSE IF Contains(err_msg, "insufficient funds")
            \/ Contains(err_msg, "gas required exceeds allowance")
    THEN "InsufficientFunds"
    ELSE IF Contains(err_msg, "RequestIsNotLocked") THEN "remove"
    ELSE "BoundlessMarketError"

\* SlashVerdict of a match without the arm Err(MarketError::RequestIsSlashed):
\* the typed error falls to the arm of the other errors.
SlashVerdictWithoutSlashedArm(o) ==
    CASE o.res = "Ok" -> "remove"
      [] o.res \in {"MarketError::SlashRevert", "MarketError::LogNotEmitted"} ->
            Reconcile(o.is_slashed)
      [] OTHER -> VerdictOfMessage(o.res)

\* process_expired_requests, the match on the result of slash: "remove" when
\* the arm removes the order and goes on, else the ServiceError it returns.
SlashVerdict(o) ==
    CASE o.res = "Ok" -> "remove"
      [] o.res = "MarketError::RequestIsSlashed" -> "remove"
      [] o.res \in {"MarketError::SlashRevert", "MarketError::LogNotEmitted"} ->
            Reconcile(o.is_slashed)
      [] OTHER -> VerdictOfMessage(o.res)

\* PassTimestamp taken at the chain tip instead of the end of the chunk.
PassTimestampOfHead(current_block) == BlockTimestamp(head)

\* process_expired_requests: the timestamp the due rows are selected for.
PassTimestamp(current_block) == BlockTimestamp(current_block)

\* ------------------------------------------------------------------ service
EmptyStore == [r \in {} |-> [expires_at |-> 0, lock_expires_at |-> 0]]

AllPhases == {"locked", "fulfilled", "slashed", "expired"}

\* NextPhase with the cursor written before the scheduler pass.
NextPhaseCursorBeforeScheduler(p) ==
    CASE p = "locked"    -> "fulfilled"
      [] p = "fulfilled" -> "slashed"
      [] p = "slashed"   -> "update"
      [] p = "expired"   -> "update"

\* NextPhase of a process_blocks that never runs the scheduler pass.
NextPhaseWithoutScheduler(p) ==
    CASE p = "locked"    -> "fulfilled"
      [] p = "fulfilled" -> "slashed"
      [] p = "slashed"   -> "update"
      [] p = "expired"   -> "update"

\* NextPhase of a process_blocks that reduces Slashed before Fulfilled.
NextPhaseSlashedFirst(p) ==
    CASE p = "locked"    -> "slashed"
      [] p = "slashed"   -> "fulfilled"
      [] p = "fulfilled" -> "expired"
      [] p = "expired"   -> "update"

\* process_blocks: the phase that follows a phase that returned Ok.
NextPhase(p) ==
    CASE p = "locked"    -> "fulfilled"
      [] p = "fulfilled" -> "slashed"
      [] p = "slashed"   -> "expired"
      [] p = "expired"   -> "update"

\* No log has been applied on its own.
NoLog == [event |-> NoEvent, block_number |-> 0]

\* The order generator before its run is called.
NoGen == [pc |-> "off", count |-> None, i |-> 0, attempts |-> 0, failed |-> 0,
          sleeps |-> 0, result |-> "none"]

Init ==
    /\ inflight = None
    /\ skipped = FALSE
    /\ gen = NoGen
    /\ applied = NoLog
    /\ raced = "-"
    /\ head = 0
    /\ logs = << >>
    /\ orders = EmptyStore
    /\ last_block = None
    /\ pc = "init"
    /\ starting_block = None
    /\ from_block = 0
    /\ chunk_to = 0
    /\ attempt = 0
    /\ expired = << >>
    /\ err = "none"
    /\ result = "none"
    /\ phases = {}
    /\ submitted = << >>
    /\ outcome = NoOutcome

\* A block is mined. The service reads only blocks up to the head it read at
\* the start of its tick, so blocks mined during a tick are taken once it
\* is over.
MineBlock ==
    /\ head < MaxBlock
    /\ pc \in {"init", "tick", "done"}
    /\ \E e \in BlockEvents(BlockTimestamp(head + 1)) :
          /\ head' = head + 1
          /\ logs' = Append(logs, e)
    /\ UNCHANGED <<inflight, skipped, gen, applied, raced, orders, last_block, pc, starting_block, from_block, chunk_to,
                   attempt, expired, err, result, phases, submitted, outcome>>

\* What get_block_number may answer: the tip, or a block a little behind it.
CurrentBlock == {head - lag : lag \in {l \in HeadLags : l <= head}}

\* StartingFrom with max in the place of min.
StartingFromMax(start, stored, current_block) ==
    LET last_processed_block == IF stored = None THEN current_block ELSE stored
        s == IF start = None THEN last_processed_block ELSE start
    IN  IF s >= current_block THEN s ELSE current_block

\* StartingFrom of a run that does not read the stored cursor.
StartingFromIgnoresCursor(start, stored, current_block) ==
    Min(IF start = None THEN current_block ELSE start, current_block)

\* run, up to the loop: the first from_block.
StartingFrom(start, stored, current_block) ==
    LET last_processed_block == IF stored = None THEN current_block ELSE stored
    IN  Min(IF start = None THEN last_processed_block ELSE start, current_block)

\* run is called (the process starts), with or without a starting_block.
RunCalled ==
    /\ pc = "init"
    /\ pc' = "start"
    /\ starting_block' \in {None} \cup 0..head
    /\ UNCHANGED <<inflight, skipped, gen, applied, raced, chainVars, storeVars, from_block, chunk_to, attempt,
                   expired, err, result, phases, submitted, outcome>>

\* run, up to the loop: the head and the stored cursor are read (either read
\* may fail, and run returns the error), from_block is set.
Startup ==
    /\ pc = "start"
    /\ \/ /\ pc' = "done"
          /\ result' \in {"RpcError", "DatabaseError"}
          /\ UNCHANGED <<from_block, attempt>>
       \/ /\ \E current_block \in CurrentBlock :
                from_block' = StartingFrom(starting_block, last_block, current_block)
          /\ attempt' = 0
          /\ pc' = "tick"
          /\ UNCHANGED result
    /\ starting_block' = None
    /\ UNCHANGED <<inflight, skipped, gen, applied, raced, chainVars, storeVars, chunk_to, expired, err, phases,
                   submitted, outcome>>

\* The process stops (crash, kill, or restart after run returned): only the
\* store survives.
Crash ==
    /\ pc # "init"
    /\ pc' = "init"
    /\ starting_block' = None
    /\ from_block' = 0
    /\ chunk_to' = 0
    /\ attempt' = 0
    /\ expired' = << >>
    /\ err' = "none"
    /\ result' = "none"
    /\ phases' = {}
    /\ submitted' = << >>
    /\ outcome' = NoOutcome
    /\ raced' = "-"
    /\ skipped' = FALSE
    /\ UNCHANGED <<inflight, gen, applied, chainVars, storeVars>>

\* run, the end of an iteration that failed with a recoverable error:
\* attempt += 1, then `if attempt > retries { return Err(MaxRetries) }`.
CountFailure ==
    /\ attempt' = attempt + 1
    /\ IF RetriesExceeded(attempt + 1)
       THEN pc' = "done" /\ result' = "MaxRetries"
       ELSE pc' = "tick" /\ UNCHANGED result

\* run, a tick whose head read fails.
TickHeadError ==
    /\ pc = "tick"
    /\ CountFailure
    /\ skipped' = FALSE
    /\ UNCHANGED <<inflight, gen, applied, raced, starting_block, chainVars, storeVars, from_block, chunk_to, expired, err,
                   phases, submitted, outcome>>

\* HeadBehind that also holds for a head equal to from_block.
HeadBehindOrAt(to_block, from) == to_block <= from

\* run, `if to_block < from_block`.
HeadBehind(to_block, from) == to_block < from

\* run, a tick whose head is below from_block: `continue`.
TickSkip ==
    /\ pc = "tick"
    /\ \E to_block \in CurrentBlock : HeadBehind(to_block, from_block)
    /\ skipped' = TRUE
    /\ UNCHANGED <<inflight, gen, applied, raced, chainVars, storeVars, pc, starting_block, from_block,
                   chunk_to, attempt, expired, err, result, phases, submitted, outcome>>

\* ChunkTo without the - 1: a range one block too long.
ChunkToOneTooMany(from, to_block) == Min(from + MaxBlockRange, to_block)

\* run, `min(from_block + max_block_range - 1, to_block)`.
ChunkTo(from, to_block) == Min(from + MaxBlockRange - 1, to_block)

\* run, a tick that has blocks to process: chunk_to, then process_blocks.
TickStart ==
    /\ pc = "tick"
    /\ \E to_block \in CurrentBlock :
          /\ ~HeadBehind(to_block, from_block)
          /\ chunk_to' = ChunkTo(from_block, to_block)
    /\ pc' = "locked"
    /\ skipped' = FALSE
    /\ UNCHANGED <<inflight, gen, applied, raced, starting_block, chainVars, storeVars, from_block, attempt, expired, err,
                   result, phases, submitted, outcome>>

\* A phase of process_blocks returns Err(e): process_blocks returns it to run.
Fail(e) ==
    /\ pc' = "error"
    /\ err' = e
    /\ expired' = << >>
    /\ UNCHANGED <<inflight, skipped, gen, applied, raced, starting_block, chainVars, last_block, from_block, chunk_to, attempt, result,
                   phases, submitted>>

\* A phase of process_blocks returns Ok(()).
PhaseOk(p) ==
    /\ pc' = NextPhase(p)
    /\ phases' = phases \cup {p}
    /\ UNCHANGED <<inflight, skipped, gen, applied, raced, starting_block, chainVars, last_block, from_block, chunk_to, attempt, err, result>>

\* What the provider returns with a log and for its block: log_data's
\* block_timestamp and block_number (either may be missing), and what
\* get_block_by_number answers for that block: the block, no block, an error.
LogDatas ==
    [block_timestamp : {None} \cup 0..(MaxBlock + 1),
     block_number    : {None} \cup 0..MaxBlock,
     block           : {"Some", "None", "Err"}]

\* CurrentTs of a reducer that reads the block even when the log carries a
\* timestamp.
CurrentTsLooksUpFirst(d) ==
    IF d.block_number = None
    THEN IF d.block_timestamp # None
         THEN [ts |-> d.block_timestamp, err |-> "none"]
         ELSE [ts |-> 0, err |-> "BlockNumberNotFound"]
    ELSE CASE d.block = "Err"  -> [ts |-> 0, err |-> "RpcError"]
           [] d.block = "None" -> [ts |-> 0, err |-> "BlockTimestampNotFound"]
           [] d.block = "Some" -> [ts |-> BlockTimestamp(d.block_number), err |-> "none"]

\* process_fulfilled_events, `let current_ts = ...`, with block_timestamp(bn):
\* the timestamp, or the error the `?` returns.
CurrentTs(d) ==
    IF d.block_timestamp # None
    THEN [ts |-> d.block_timestamp, err |-> "none"]
    ELSE IF d.block_number = None
    THEN [ts |-> 0, err |-> "BlockNumberNotFound"]
    ELSE CASE d.block = "Err"  -> [ts |-> 0, err |-> "RpcError"]
           [] d.block = "None" -> [ts |-> 0, err |-> "BlockTimestampNotFound"]
           [] d.block = "Some" -> [ts |-> BlockTimestamp(d.block_number), err |-> "none"]

\* The errors the loop of a reducer can stop with at a log: a skipped lock
\* touches nothing; a fulfilment resolves its timestamp and reads the order;
\* the other logs write to the store.
LoopErrors(e) ==
    CASE e.kind = "Locked" ->
            IF e.prover \in SkipAddresses THEN {} ELSE {"DatabaseError"}
      [] e.kind = "Fulfilled" ->
            ({CurrentTs(d).err : d \in LogDatas} \ {"none"}) \cup {"DatabaseError"}
      [] e.kind = "Slashed" -> {"DatabaseError"}

\* A reducer over the logs ls of its query: the query fails, or the loop
\* stops at log k with an error (the logs before it applied), or all the
\* logs are applied.
Reduce(p, ls) ==
    \/ /\ Fail("EventQueryError")
       /\ UNCHANGED <<orders, outcome>>
    \/ /\ \E k \in 1..Len(ls) : \E e \in LoopErrors(ls[k].event) :
            /\ orders' = ApplyLogs(orders, ls, k - 1)
            /\ Fail(e)
       /\ UNCHANGED outcome
    \/ /\ orders' = ApplyLogs(orders, ls, Len(ls))
       /\ PhaseOk(p)
       /\ UNCHANGED <<expired, submitted, outcome>>

ProcessLockedEvents ==
    /\ pc = "locked"
    /\ Reduce("locked", QueryLogs("Locked", from_block, chunk_to))

ProcessFulfilledEvents ==
    /\ pc = "fulfilled"
    /\ Reduce("fulfilled", QueryLogs("Fulfilled", from_block, chunk_to))

ProcessSlashedEvents ==
    /\ pc = "slashed"
    /\ Reduce("slashed", QueryLogs("Slashed", from_block, chunk_to))

\* process_expired_requests, up to the loop: the due rows.
ProcessExpiredRequests ==
    /\ pc = "expired"
    /\ \/ /\ \E e \in {"RpcError", "BlockTimestampNotFound", "DatabaseError"} : Fail(e)
          /\ UNCHANGED <<orders, outcome>>
       \/ /\ expired' = GetExpiredOrders(orders, PassTimestamp(chunk_to))
          /\ pc' = "slashing"
          /\ submitted' = << >>
          /\ outcome' = NoOutcome
          /\ UNCHANGED <<inflight, skipped, gen, applied, raced, starting_block, chainVars, storeVars, from_block, chunk_to, attempt, err,
                         result, phases>>

\* Another participant slashes or fulfils the request the pass dispatches
\* next, after the pass selected it and before our slash.
OtherResolves ==
    /\ pc = "slashing"
    /\ expired # << >>
    /\ raced = "-"
    /\ raced' \in {"slashed", "fulfilled"}
    /\ UNCHANGED <<inflight, skipped, gen, applied, chainVars, storeVars, pc, starting_block, from_block, chunk_to,
                   attempt, expired, err, result, phases, submitted, outcome>>

\* process_expired_requests, one iteration of the loop: slash the next due
\* request and act on what slash returned. (The arm RequestIsSlashed removes
\* the request id the error carries, which is the id that was slashed.)
SlashNext ==
    /\ pc = "slashing"
    /\ expired # << >>
    /\ \E o \in IF raced = "-" THEN SlashOutcomes ELSE RaceOutcomes(raced) :
          /\ outcome' = o
          /\ submitted' = Append(submitted, Head(expired))
          /\ IF SlashVerdict(o) = "remove"
             THEN \/ /\ orders' = RemoveOrder(orders, Head(expired))
                     /\ expired' = Tail(expired)
                     /\ raced' = "-"
                     /\ UNCHANGED <<inflight, skipped, gen, applied, starting_block, chainVars, last_block, pc, from_block, chunk_to,
                                    attempt, err, result, phases>>
                  \/ /\ pc' = "error"
                     /\ err' = "DatabaseError"
                     /\ expired' = << >>
                     /\ UNCHANGED <<inflight, skipped, gen, applied, raced, starting_block, chainVars, storeVars, from_block, chunk_to,
                                    attempt, result, phases>>
             ELSE /\ pc' = "error"
                  /\ err' = SlashVerdict(o)
                  /\ expired' = << >>
                  /\ UNCHANGED <<inflight, skipped, gen, applied, raced, starting_block, chainVars, storeVars, from_block, chunk_to,
                                 attempt, result, phases>>

\* process_expired_requests, after the loop: Ok(()).
ProcessExpiredDone ==
    /\ pc = "slashing"
    /\ expired = << >>
    /\ PhaseOk("expired")
    /\ UNCHANGED <<orders, expired, submitted, outcome>>

\* NextFrom of a loop that starts the next range at the block it just
\* processed.
NextFromSameBlock(to) == to

\* NextFrom of a loop that leaves one block out between two ranges.
NextFromSkipsBlock(to) == to + 2

\* run, the arm Ok(_): `from_block = chunk_to + 1`.
NextFrom(to) == to + 1

\* process_blocks, update_last_processed_block(to), and, when it is Ok, run's
\* arm Ok: attempt = 0, from_block = chunk_to + 1.
UpdateLastProcessedBlock ==
    /\ pc = "update"
    /\ \/ /\ Fail("DatabaseError")
          /\ UNCHANGED <<orders, outcome>>
       \/ /\ SetLastBlockAccepts(last_block, chunk_to)
          /\ last_block' = chunk_to
          /\ attempt' = 0
          /\ from_block' = NextFrom(chunk_to)
          /\ pc' = "tick"
          /\ phases' = {}
          /\ submitted' = << >>
          /\ outcome' = NoOutcome
          /\ UNCHANGED <<inflight, skipped, gen, applied, raced, starting_block, chainVars, orders, chunk_to, expired, err, result>>

\* FromAfterFailure of a loop that goes past a range that failed.
FromAfterFailureAdvances(from, to) == to + 1

\* run, the arm of the recoverable errors: from_block is not assigned, the
\* next iteration starts at the same block.
FromAfterFailure(from, to) == from

\* run, the arm Err(e) of the match on process_blocks: return an
\* irrecoverable error, count a recoverable one.
HandleError ==
    /\ pc = "error"
    /\ IF Irrecoverable(err)
       THEN pc' = "done" /\ result' = err /\ UNCHANGED <<attempt, from_block>>
       ELSE CountFailure /\ from_block' = FromAfterFailure(from_block, chunk_to)
    /\ err' = "none"
    /\ phases' = {}
    /\ submitted' = << >>
    /\ outcome' = NoOutcome
    /\ raced' = "-"
    /\ UNCHANGED <<inflight, skipped, gen, applied, starting_block, chainVars, storeVars, chunk_to, expired>>

Next ==
    \/ MineBlock
    \/ RunCalled
    \/ Startup
    \/ Crash
    \/ TickHeadError
    \/ TickSkip
    \/ TickStart
    \/ ProcessLockedEvents
    \/ ProcessFulfilledEvents
    \/ ProcessSlashedEvents
    \/ ProcessExpiredRequests
    \/ OtherResolves
    \/ SlashNext
    \/ ProcessExpiredDone
    \/ UpdateLastProcessedBlock
    \/ HandleError

Spec == Init /\ [][Next]_vars

\* ------------------------------------------------------------------ claims
\* Elements of a sequence.
Range(q) == {q[i] : i \in 1..Len(q)}

\* The step is a slash submission of the scheduler (one iteration of its loop).
SlashStep == pc = "slashing" /\ Len(submitted') = Len(submitted) + 1

\* The step is run acting on the error process_blocks returned (not a stop
\* of the process).
HandleErrorStep == pc = "error" /\ pc' # "init"

\* The blocks of the range of the tick in progress that carry a Fulfilled
\* event for the tracked request r, later than / within the row's lock deadline.
LateFulfilledIn(r, from, to) ==
    {b \in from..to : /\ b \in 1..head
                      /\ logs[b].kind = "Fulfilled" /\ logs[b].requestId = r
                      /\ BlockTimestamp(b) > orders[r].lock_expires_at}

InLockFulfilledIn(r, from, to) ==
    {b \in from..to : /\ b \in 1..head
                      /\ logs[b].kind = "Fulfilled" /\ logs[b].requestId = r
                      /\ BlockTimestamp(b) <= orders[r].lock_expires_at}

\* C1: the persisted cursor is written, to chunk_to, only by the cursor
\* update that follows the Locked, Fulfilled and Slashed reducers and the
\* whole scheduler pass of the tick having all returned Ok; a step in which
\* one of them (or the update itself) fails, and run's handling of that
\* failure, leave the cursor as it was.
C1_CursorAfterAllPhases ==
    [][ /\ last_block' # last_block =>
              /\ pc = "update"
              /\ phases = AllPhases
              /\ expired = << >>
              /\ last_block' = chunk_to
        /\ (pc' = "error" \/ pc = "error") => last_block' = last_block
      ]_vars

\* C1 witness: a tick has just written the cursor after all its phases.
C1_Witness ==
    /\ pc = "tick"
    /\ attempt = 0
    /\ chunk_to >= 1
    /\ last_block = chunk_to
    /\ from_block = chunk_to + 1

\* C2: when the Fulfilled reducer meets only late fulfilments (block
\* timestamp > lock_expires_at) of a tracked request, the row stays as it
\* is; and a tracked row with a late fulfilment on chain is in the due list
\* of every scheduler pass whose timestamp ts has expires_at <= ts, the
\* list the pass submits from its head on.
C2_LateFulfillmentKeepsRow ==
    [][ /\ (pc = "fulfilled" /\ pc' = "slashed") =>
              \A r \in DOMAIN orders :
                  (/\ LateFulfilledIn(r, from_block, chunk_to) # {}
                   /\ InLockFulfilledIn(r, from_block, chunk_to) = {})
                  => (r \in DOMAIN orders' /\ orders'[r] = orders[r])
        /\ (pc = "expired" /\ pc' = "slashing") =>
              \A r \in DOMAIN orders :
                  (/\ LateFulfilledIn(r, 1, chunk_to) # {}
                   /\ orders[r].expires_at <= BlockTimestamp(chunk_to))
                  => r \in Range(expired')
        /\ SlashStep => submitted' = Append(submitted, Head(expired))
      ]_vars

\* C2 witness: a scheduler pass is about to submit a row whose request was
\* fulfilled late in the range of this tick.
C2_Witness ==
    /\ pc = "slashing"
    /\ expired # << >>
    /\ Head(expired) \in DOMAIN orders
    /\ LateFulfilledIn(Head(expired), from_block, chunk_to) # {}

\* C3: when the Fulfilled reducer meets a fulfilment of a tracked request
\* with block timestamp <= lock_expires_at (equality included), the row is
\* gone when the reducer returns; and every request the scheduler submits
\* has a row in the store at that moment, so a removed request is not
\* submitted unless a Locked event has added its row again.
C3_InLockFulfillmentRemovesRow ==
    [][ /\ (pc = "fulfilled" /\ pc' = "slashed") =>
              \A r \in DOMAIN orders :
                  InLockFulfilledIn(r, from_block, chunk_to) # {} => r \notin DOMAIN orders'
        /\ SlashStep => Head(expired) \in DOMAIN orders
      ]_vars

\* C3 witness: the Fulfilled reducer has returned, and a request locked in
\* this range by a tracked prover and fulfilled exactly at its lock deadline
\* has no row.
C3_Witness ==
    /\ pc = "slashed"
    /\ \E r \in RequestIds : \E b0, b \in from_block..chunk_to :
          /\ b0 \in 1..head /\ b \in 1..head
          /\ logs[b0].kind = "Locked" /\ logs[b0].requestId = r
          /\ logs[b0].prover \notin SkipAddresses
          /\ logs[b].kind = "Fulfilled" /\ logs[b].requestId = r
          /\ BlockTimestamp(b) = LockExpiresAt(logs[b0])
          /\ r \notin DOMAIN orders

\* C4: every request the scheduler submits to slash has a row in the store
\* whose expires_at <= ts, ts the block timestamp of chunk_to of the tick;
\* the due list of a pass holds exactly such rows.
C4_OnlyDueRowsSubmitted ==
    [][ /\ SlashStep =>
              /\ Head(expired) \in DOMAIN orders
              /\ orders[Head(expired)].expires_at <= BlockTimestamp(chunk_to)
        /\ (pc = "expired" /\ pc' = "slashing") =>
              \A r \in Range(expired') :
                  /\ r \in DOMAIN orders
                  /\ orders[r].expires_at <= BlockTimestamp(chunk_to)
      ]_vars

\* C4 witness: a pass is submitting a due row while the store also holds a
\* row that is not due yet.
C4_Witness ==
    /\ pc = "slashing"
    /\ expired # << >>
    /\ \E r \in DOMAIN orders : orders[r].expires_at > BlockTimestamp(chunk_to)

\* C5: the persisted cursor never decreases, whatever the ticks, failures,
\* aborts and restarts (None, the cursor never written, counts as below
\* every block number).
C5_CursorMonotonic == [][last_block' >= last_block]_vars

\* C5 witness: after a restart behind the stored cursor, a tick whose phases
\* all returned Ok had its cursor write (below the stored value) refused.
C5_Witness ==
    /\ pc = "error"
    /\ err = "DatabaseError"
    /\ phases = AllPhases
    /\ chunk_to < last_block

\* The slash outcomes that resolve the request: Success, already slashed,
\* already fulfilled, not locked.
ResolvedOutcomes ==
    {"Ok", "MarketError::RequestIsSlashed", "RequestIsSlashed",
     "RequestIsFulfilled", "RequestIsNotLocked"}

\* The pass goes on after the slash of the head of the due list: its row is
\* removed, no error is raised, the rest of the list is what remains.
PassContinues ==
    /\ Head(expired) \notin DOMAIN orders'
    /\ orders' = RemoveOrder(orders, Head(expired))
    /\ pc' = "slashing"
    /\ err' = "none"
    /\ expired' = Tail(expired)

\* The removal itself failed in the store: a DatabaseError, the row kept.
RemovalFailed == pc' = "error" /\ err' = "DatabaseError" /\ orders' = orders

\* C6: when the slash of a due row returns Success or an already-resolved
\* outcome, the row is removed (get is absent afterwards) and the pass goes
\* on with the next due row without an error, unless the store fails the
\* removal; removing the row again changes nothing in the store.
C6_ResolvedOutcomeRemovesRow ==
    [][ (SlashStep /\ outcome'.res \in ResolvedOutcomes) =>
            /\ PassContinues \/ RemovalFailed
            /\ PassContinues => RemoveOrder(orders', Head(expired)) = orders'
      ]_vars

\* C6 witness: a slash answered "not locked" removed its row and the pass has
\* a next due row to go on with.
C6_Witness ==
    /\ pc = "slashing"
    /\ outcome.res = "RequestIsNotLocked"
    /\ submitted # << >>
    /\ submitted[Len(submitted)] \notin DOMAIN orders
    /\ expired # << >>

\* C7: when a slash returns SlashRevert or LogNotEmitted, the answer of
\* is_slashed decides: true, the row is removed and the pass goes on as on
\* success (unless the store fails the removal); false, the row is kept and
\* the pass ends with SlashRevert, which run counts as a recoverable failure.
C7_RevertReconciliation ==
    [][ /\ (/\ SlashStep
            /\ outcome'.res \in {"MarketError::SlashRevert", "MarketError::LogNotEmitted"})
           => /\ outcome'.is_slashed = "true" => (PassContinues \/ RemovalFailed)
              /\ outcome'.is_slashed = "false" =>
                    /\ orders' = orders
                    /\ pc' = "error"
                    /\ err' = "SlashRevert"
        /\ (HandleErrorStep /\ err = "SlashRevert") =>
              /\ attempt' = attempt + 1
              /\ result' \in {"none", "MaxRetries"}
              /\ orders' = orders
      ]_vars

\* C7 witness: a LogNotEmitted slash that is_slashed does not confirm has
\* ended the pass with SlashRevert, its row still in the store.
C7_Witness ==
    /\ pc = "error"
    /\ err = "SlashRevert"
    /\ outcome = [res |-> "MarketError::LogNotEmitted", is_slashed |-> "false"]
    /\ submitted[Len(submitted)] \in DOMAIN orders

\* The slash outcomes NotYetExpired and InsufficientFunds.
FatalOutcomes ==
    {"RequestIsNotExpired", "insufficient funds", "gas required exceeds allowance"}

\* C8: when a slash returns NotYetExpired or InsufficientFunds, the pass
\* ends with RequestNotExpired or InsufficientFunds and run returns that
\* error in its next step, whatever attempt is; the store (the row of the
\* request, the due rows not dispatched) and the cursor stay as they were.
C8_FatalSlashOutcomeAborts ==
    [][ /\ (SlashStep /\ outcome'.res \in FatalOutcomes) =>
              /\ pc' = "error"
              /\ err' = (IF outcome'.res = "RequestIsNotExpired"
                         THEN "RequestNotExpired" ELSE "InsufficientFunds")
              /\ orders' = orders
              /\ last_block' = last_block
        /\ (HandleErrorStep /\ err \in {"RequestNotExpired", "InsufficientFunds"}) =>
              /\ pc' = "done"
              /\ result' = err
              /\ attempt' = attempt
              /\ orders' = orders
              /\ last_block' = last_block
      ]_vars

\* C8 witness: run has returned InsufficientFunds with failures counted
\* before and rows left in the store.
C8_Witness ==
    /\ pc = "done"
    /\ result = "InsufficientFunds"
    /\ attempt >= 1
    /\ DOMAIN orders # {}

\* C9: attempt changes only by +1 (a recoverable failure: head read or
\* process_blocks) or to 0 (a processed chunk, or a start of run); run
\* returns MaxRetries in exactly the steps that count a failure and bring
\* attempt above retries; while attempt <= retries it has not returned
\* MaxRetries.
C9_MaxRetriesExactlyWhenExceeded ==
    [][ /\ attempt' # attempt => (attempt' = attempt + 1 \/ attempt' = 0)
        /\ (HandleErrorStep /\ ~Irrecoverable(err)) => attempt' = attempt + 1
        /\ (pc = "update" /\ pc' = "tick") => attempt' = 0
        /\ (result' = "MaxRetries" /\ result # "MaxRetries")
              <=> (attempt' = attempt + 1 /\ attempt' > Retries)
        /\ (result' = "MaxRetries") => attempt' = Retries + 1
        /\ (pc' \notin {"done", "init"}) => attempt' <= Retries
      ]_vars

\* C9 witness: run has returned MaxRetries with attempt = retries + 1.
C9_Witness ==
    /\ pc = "done"
    /\ result = "MaxRetries"
    /\ attempt = Retries + 1

\* The claim's two classes of errors.
ClaimedFatal ==
    {"DatabaseError", "InsufficientFunds", "MaxRetries", "TransactionDecodingError",
     "BlockNumberNotFound", "RequestNotExpired"}

ClaimedTransient ==
    {"BoundlessMarketError", "SlashRevert", "EventQueryError", "RpcError",
     "BlockTimestampNotFound"}

\* C10: when process_blocks returns an error of the first class, run
\* returns that error in its next step; when it returns one of the second
\* class, run does not return that error, it increments attempt (and
\* returns at most MaxRetries); run's match puts every ServiceError in the
\* class the claim names.
C10_FailureClassification ==
    [][ /\ (HandleErrorStep /\ err \in ClaimedFatal) =>
              (pc' = "done" /\ result' = err /\ attempt' = attempt)
        /\ (HandleErrorStep /\ err \in ClaimedTransient) =>
              (result' \in {"none", "MaxRetries"} /\ attempt' = attempt + 1)
        /\ pc' = "error" => err' \in ClaimedFatal \cup ClaimedTransient
        /\ \A e \in ServiceError :
              /\ e \in ClaimedFatal <=> Irrecoverable(e)
              /\ e \in ClaimedTransient <=> ~Irrecoverable(e)
      ]_vars

\* C10 witness: run has returned the BlockNumberNotFound that the Fulfilled
\* reducer raised.
C10_Witness ==
    /\ pc = "done"
    /\ result = "BlockNumberNotFound"

\* The blocks of [from, to] that carry a Locked event of a prover that is not
\* skipped.
LockedIn(from, to) ==
    {b \in from..to : /\ b \in 1..head
                      /\ logs[b].kind = "Locked"
                      /\ logs[b].prover \notin SkipAddresses}

\* [from, to] carries, for the request of the Locked event l, a Slashed event
\* or a Fulfilled event whose block timestamp is within l's lock deadline.
CounterpartIn(l, from, to) ==
    \E b \in from..to :
        /\ b \in 1..head
        /\ logs[b].requestId = l.requestId
        /\ \/ logs[b].kind = "Slashed"
           \/ logs[b].kind = "Fulfilled" /\ BlockTimestamp(b) <= LockExpiresAt(l)

\* C11: when the three reducers have processed the range of the tick and the
\* scheduler has not run yet, every Locked event of the range by a prover
\* outside the skip set has a row exactly when the range carries no Slashed
\* event and no in-lock Fulfilled event of the same request.
C11_ReducedRange ==
    pc = "expired" =>
        \A b \in LockedIn(from_block, chunk_to) :
            HasOrder(orders, logs[b].requestId)
                <=> ~CounterpartIn(logs[b], from_block, chunk_to)

\* C11 witness: the reducers are done with a range that locks one request
\* and slashes or fulfils it in lock; its row is gone.
C11_Witness ==
    /\ pc = "expired"
    /\ \E b \in LockedIn(from_block, chunk_to) :
          /\ CounterpartIn(logs[b], from_block, chunk_to)
          /\ ~HasOrder(orders, logs[b].requestId)

\* ------------------------------------------------------------------ one event
\* The reducers' loop bodies applied to one log at a time, from every store
\* the reducers can have left (rows with lock_expires_at <= expires_at).
IdemTimes == 0..(MaxBlock + 1)

IdemRows ==
    {row \in [expires_at : IdemTimes, lock_expires_at : IdemTimes] :
        row.lock_expires_at <= row.expires_at}

IdemStores == UNION {[S -> IdemRows] : S \in SUBSET RequestIds}

IdemInit ==
    /\ inflight = None
    /\ skipped = FALSE
    /\ gen = NoGen
    /\ orders \in IdemStores
    /\ applied = NoLog
    /\ raced = "-"
    /\ pc = "idem"
    /\ head = 0
    /\ logs = << >>
    /\ last_block = None
    /\ starting_block = None
    /\ from_block = 0
    /\ chunk_to = 0
    /\ attempt = 0
    /\ expired = << >>
    /\ err = "none"
    /\ result = "none"
    /\ phases = {}
    /\ submitted = << >>
    /\ outcome = NoOutcome

\* The log l is applied: the store changes as the reducer's loop body says.
IdemApply(l, store) ==
    /\ pc = "idem"
    /\ orders' = store
    /\ applied' = l
    /\ UNCHANGED <<inflight, skipped, gen, raced, chainVars, last_block, pc, starting_block, from_block, chunk_to,
                   attempt, expired, err, result, phases, submitted, outcome>>

\* process_locked_events, the loop body for one RequestLocked log.
IdemLocked ==
    \E r \in RequestIds, p \in Provers, start \in 0..MaxBlock, o \in Offers :
        LET e == LockedEvent(r, p, start, o)
        IN  IdemApply([event |-> e, block_number |-> start], ApplyLocked(orders, e))

\* process_fulfilled_events, the loop body for one RequestFulfilled log.
IdemFulfilled ==
    \E r \in RequestIds, b \in 0..MaxBlock :
        LET e == FulfilledEvent(r)
        IN  IdemApply([event |-> e, block_number |-> b],
                      ApplyFulfilled(orders, e, BlockTimestamp(b)))

\* process_slashed_events, the loop body for one ProverSlashed log.
IdemSlashed ==
    \E r \in RequestIds, b \in 0..MaxBlock :
        LET e == SlashedEvent(r)
        IN  IdemApply([event |-> e, block_number |-> b], ApplySlashed(orders, e))

IdemNext == IdemLocked \/ IdemFulfilled \/ IdemSlashed

SpecIdem == IdemInit /\ [][IdemNext]_vars

\* C12: applying a Locked, Fulfilled or Slashed event to the store a second
\* time leaves the store as the first application left it, for every store
\* and every event.
C12_EventApplicationIdempotent ==
    (pc = "idem" /\ applied # NoLog) => ApplyLogs(orders, <<applied>>, 1) = orders

\* C12 witness: a Locked event of a prover that is not skipped has replaced
\* the row of a request; applying it again would write the same row.
C12_Witness ==
    /\ pc = "idem"
    /\ applied.event.kind = "Locked"
    /\ applied.event.prover \notin SkipAddresses
    /\ HasOrder(orders, applied.event.requestId)
    /\ orders[applied.event.requestId].expires_at = ExpiresAt(applied.event)
    /\ \E q \in DOMAIN orders : q # applied.event.requestId

\* ------------------------------------------------------------------ replay
\* process_expired_requests when every slash resolves (Ok, RequestIsSlashed,
\* or a revert naming a final state): each due row is removed, in order.
RECURSIVE SlashAllOk(_, _)
SlashAllOk(store, ids) ==
    IF ids = << >> THEN store
    ELSE SlashAllOk(RemoveOrder(store, Head(ids)), Tail(ids))

\* process_blocks(from, to), its three reducers when every call returns Ok:
\* the store after the Locked, then the Fulfilled, then the Slashed logs.
ReducersOk(store, from, to) ==
    LET locked    == QueryLogs("Locked", from, to)
        fulfilled == QueryLogs("Fulfilled", from, to)
        slashed   == QueryLogs("Slashed", from, to)
        s1 == ApplyLogs(store, locked, Len(locked))
        s2 == ApplyLogs(s1, fulfilled, Len(fulfilled))
    IN  ApplyLogs(s2, slashed, Len(slashed))

\* process_blocks(from, to) when every call returns Ok: the store after the
\* reducers and the scheduler pass.
ProcessBlocksOk(store, from, to) ==
    LET s3 == ReducersOk(store, from, to)
    IN  SlashAllOk(s3, GetExpiredOrders(s3, PassTimestamp(to)))

\* run's loop from from on a chain whose head is to_block, every tick
\* succeeding, until from_block is past to_block: the store it ends with.
RECURSIVE RunOk(_, _, _)
RunOk(store, from, to_block) ==
    IF to_block < from THEN store
    ELSE LET c == ChunkTo(from, to_block)
         IN  RunOk(ProcessBlocksOk(store, from, c), c + 1, to_block)

\* With the rows store and the persisted cursor c: the run restarted without
\* starting_block on a chain whose head is h ends with the rows of the run
\* going on from from up to h, for every h the chain has reached.
RestartEquivalent(store, c, from) ==
    \A h \in c..head :
        RunOk(store, StartingFrom(None, c, h), h) = RunOk(store, from, h)

\* C13: when a tick persists the cursor c (from_block becomes c + 1), then
\* for every head h the chain has reached, a run that stops there and is
\* restarted without starting_block, re-processing from block c up to h,
\* ends with the same rows as the run that goes on from block c + 1 up to h.
C13_RestartEquivalence ==
    [][(pc = "update" /\ pc' = "tick")
           => RestartEquivalent(orders', last_block', from_block')]_vars

\* C13 witness: the cursor c is persisted with a row locked in block c in
\* the store, and the chain has a later block: the restarted run applies
\* the Locked event of block c a second time.
C13_Witness ==
    /\ pc = "tick"
    /\ last_block # None
    /\ from_block = last_block + 1
    /\ last_block >= 1
    /\ head > last_block
    /\ logs[last_block].kind = "Locked"
    /\ HasOrder(orders, logs[last_block].requestId)
    /\ orders[logs[last_block].requestId].expires_at > 0

C15_FirstBlock ==
    [][(pc = "start" /\ pc' = "tick") =>
          \E current \in CurrentBlock :
              LET S == IF starting_block # None THEN starting_block
                       ELSE IF last_block # None THEN last_block
                       ELSE current
              IN  from_block' = IF S <= current THEN S ELSE current
      ]_vars

\* C15 witness: run was started without starting_block on a store whose
\* cursor is behind the head, and starts at the cursor.
C15_Witness ==
    /\ pc = "tick"
    /\ starting_block = None
    /\ last_block # None
    /\ last_block >= 1
    /\ last_block < head
    /\ from_block = last_block
    /\ attempt = 0

\* The step is run computing the range of a tick and entering process_blocks.
RangeStep == pc = "tick" /\ pc' = "locked"

\* C16: every range run hands to process_blocks has from_block <= chunk_to
\* <= head, at most max_block_range blocks, and chunk_to = min(from_block +
\* max_block_range - 1, head read by the tick); every tick whose
\* process_blocks returned Ok moves from_block strictly forward.
C16_RangeBounds ==
    [][ /\ RangeStep =>
              /\ from_block <= chunk_to'
              /\ chunk_to' <= head
              /\ chunk_to' - from_block + 1 <= MaxBlockRange
              /\ \E to_block \in CurrentBlock :
                    chunk_to' = IF from_block + MaxBlockRange - 1 <= to_block
                                THEN from_block + MaxBlockRange - 1
                                ELSE to_block
        /\ (pc = "update" /\ pc' = "tick") =>
              /\ from_block' = chunk_to + 1
              /\ from_block' > from_block
      ]_vars

\* C16 witness: a tick is processing a range capped by max_block_range (the
\* chain is further ahead), of exactly max_block_range blocks.
C16_Witness ==
    /\ pc = "locked"
    /\ chunk_to < head
    /\ chunk_to - from_block + 1 = MaxBlockRange

\* The requests with a Slashed event in [from, to].
SlashedIn(from, to) ==
    {logs[b].requestId : b \in {c \in from..to : c \in 1..head /\ logs[c].kind = "Slashed"}}

\* C17: when the Slashed reducer has processed the range of a tick, no
\* request with a Slashed event in the range has a row, whatever the row's
\* deadlines were; and the scheduler pass of that tick submits no slash for
\* such a request.
C17_SlashedRemovesRow ==
    [][ /\ (pc = "slashed" /\ pc' = "expired") =>
              \A r \in SlashedIn(from_block, chunk_to) : ~HasOrder(orders', r)
        /\ SlashStep =>
              submitted'[Len(submitted')] \notin SlashedIn(from_block, chunk_to)
      ]_vars

\* C17 witness: the scheduler pass of a tick has selected its due rows; the
\* range of the tick carries the Locked event and the Slashed event of a
\* request whose row, written by the Locked reducer of this tick, would have
\* been due: the row is gone and the request is not selected.
C17_Witness ==
    /\ pc = "slashing"
    /\ \E b \in LockedIn(from_block, chunk_to) :
          /\ logs[b].requestId \in SlashedIn(from_block, chunk_to)
          /\ ExpiresAt(logs[b]) <= PassTimestamp(chunk_to)
          /\ ~HasOrder(orders, logs[b].requestId)
          /\ logs[b].requestId \notin Range(expired)

\* The blocks of [from, to] that carry a Locked event of a skipped prover.
SkippedLockedIn(from, to) ==
    {b \in from..to : /\ b \in 1..head
                      /\ logs[b].kind = "Locked"
                      /\ logs[b].prover \in SkipAddresses}

\* C18: when the Locked reducer has processed the range of a tick, each
\* request locked in the range by a prover outside the skip set has the row
\* (ramp_up_start + timeout, ramp_up_start + lock_timeout), and every other
\* request, those locked in the range by a skipped prover included, has the
\* row it had, or none as before; and every request the scheduler submits
\* has a Locked event of a prover outside the skip set on the chain.
C18_SkippedProversNotTracked ==
    [][ /\ (pc = "locked" /\ pc' = "fulfilled") =>
              /\ \A b \in LockedIn(from_block, chunk_to) :
                    /\ HasOrder(orders', logs[b].requestId)
                    /\ orders'[logs[b].requestId] =
                          [expires_at      |-> logs[b].rampUpStart + logs[b].timeout,
                           lock_expires_at |-> logs[b].rampUpStart + logs[b].lockTimeout]
              /\ \A r \in RequestIds \ {logs[b].requestId : b \in LockedIn(from_block, chunk_to)} :
                    /\ HasOrder(orders', r) <=> HasOrder(orders, r)
                    /\ HasOrder(orders, r) => orders'[r] = orders[r]
        /\ SlashStep =>
              \E b \in LockedIn(1, head) : logs[b].requestId = submitted'[Len(submitted')]
      ]_vars

\* C18 witness: the Locked reducer has processed a range with a lock by a
\* skipped prover and a lock by another prover: the first request has no
\* row, the second has one.
C18_Witness ==
    /\ pc = "fulfilled"
    /\ \E b \in SkippedLockedIn(from_block, chunk_to) : ~HasOrder(orders, logs[b].requestId)
    /\ \E b \in LockedIn(from_block, chunk_to) : HasOrder(orders, logs[b].requestId)

\* The slash outcomes that end the pass with a recoverable error: a market
\* error with no known marker, or a revert / missing log with the request
\* not confirmed slashed.
TransientOutcomes ==
    {o \in SlashOutcomes :
        \/ o.res = "other"
        \/ /\ o.res \in {"MarketError::SlashRevert", "MarketError::LogNotEmitted"}
           /\ o.is_slashed \in {"false", "error"}}

\* With the rows store left by a pass that stopped at the due list due: the
\* tick that retries the range on a head that has not gone back selects, in
\* its pass, each request of due that its reducers leave in the store.
RetrySeesDue(store, due) ==
    \A to_block \in chunk_to..head :
        LET c == ChunkTo(from_block, to_block)
            s == ReducersOk(store, from_block, c)
        IN  \A r \in Range(due) \cap DOMAIN s :
                r \in Range(GetExpiredOrders(s, PassTimestamp(c)))

\* C19: when a slash of the pass returns a transient outcome, the pass ends
\* with a recoverable error; the rows of the requests resolved before it in
\* the pass are gone, the row it failed at and the due rows not yet
\* dispatched are still in the store, the cursor and from_block are as they
\* were, run's handling of the error changes none of them, and the pass of
\* the tick that retries the range selects the remaining rows again.
C19_PartialDispatch ==
    [][ /\ (SlashStep /\ outcome' \in TransientOutcomes) =>
              /\ pc' = "error"
              /\ err' \in {"BoundlessMarketError", "SlashRevert"}
              /\ ~Irrecoverable(err')
              /\ orders' = orders
              /\ \A i \in 1..Len(submitted) : ~HasOrder(orders', submitted[i])
              /\ \A r \in Range(expired) : HasOrder(orders', r)
              /\ last_block' = last_block
              /\ from_block' = from_block
              /\ RetrySeesDue(orders', expired)
        /\ (HandleErrorStep /\ ~Irrecoverable(err)) =>
              /\ orders' = orders
              /\ last_block' = last_block
              /\ from_block' = from_block
      ]_vars

\* C19 witness: a pass has removed the row of its first due request and
\* ended with a recoverable error at its second, whose row is in the store.
C19_Witness ==
    /\ pc = "error"
    /\ err \in {"BoundlessMarketError", "SlashRevert"}
    /\ outcome \in TransientOutcomes
    /\ Len(submitted) = 2
    /\ ~HasOrder(orders, submitted[1])
    /\ HasOrder(orders, submitted[2])

\* The errors of the chain reader: the head read, the block timestamp read
\* and the event query.
ReaderErrors == {"RpcError", "BlockTimestampNotFound", "EventQueryError"}

\* C20: run never returns an error of the chain reader: wherever a read of
\* the head, of a block timestamp or of the events fails, the startup head
\* read included, the failure is counted and retried, and run returns only
\* MaxRetries for it.
C20_ReaderErrorsNeverReturned == result \notin ReaderErrors

\* ------------------------------------------------------------------ liveness
\* The service when chain reads, store operations and slash submissions
\* succeed and the process is not stopped: no step ends in an error.
ServiceOk ==
    \/ RunCalled
    \/ Startup /\ pc' = "tick"
    \/ TickSkip
    \/ TickStart
    \/ ProcessLockedEvents /\ pc' # "error"
    \/ ProcessFulfilledEvents /\ pc' # "error"
    \/ ProcessSlashedEvents /\ pc' # "error"
    \/ ProcessExpiredRequests /\ pc' # "error"
    \/ SlashNext /\ outcome'.res = "Ok" /\ pc' # "error"
    \/ ProcessExpiredDone
    \/ UpdateLastProcessedBlock /\ pc' # "error"

NextOk == MineBlock \/ ServiceOk

\* The chain keeps producing blocks (up to MaxBlock) and run's loop keeps
\* ticking: interval.tick() returns, and every await of a tick completes.
SpecLive == Init /\ [][NextOk]_vars /\ WF_vars(MineBlock) /\ WF_vars(ServiceOk)

\* The chain carries a Slashed event of r, or a Fulfilled event of r whose
\* block timestamp is within the lock deadline of r's Locked event.
CounterpartOnChain(r) ==
    \E b \in LockedIn(1, head) :
        logs[b].requestId = r /\ CounterpartIn(logs[b], 1, head)

\* C21: when reads, store operations and slashes succeed and the chain keeps
\* advancing, a row whose expires_at the block timestamps reach leads to
\* the row being gone from the store, after a slash submitted for it by the
\* scheduler unless the chain carries a Slashed or in-lock Fulfilled event
\* for the request.
C21_DueRowEventuallySlashed ==
    \A r \in RequestIds :
        (HasOrder(orders, r) /\ orders[r].expires_at <= MaxBlock)
            ~> (/\ ~HasOrder(orders, r)
                /\ r \in Range(submitted) \/ CounterpartOnChain(r))

\* C21 witness: the scheduler has submitted the slash of a due row whose
\* request has no Slashed and no in-lock Fulfilled event on the chain, the
\* slash succeeded and the row is gone.
C21_Witness ==
    /\ pc = "slashing"
    /\ outcome.res = "Ok"
    /\ submitted # << >>
    /\ ~HasOrder(orders, submitted[Len(submitted)])
    /\ ~CounterpartOnChain(submitted[Len(submitted)])
    /\ head = MaxBlock

\* ------------------------------------------------------------------ restarts
\* The service whose operator gives no starting_block once a cursor is
\* stored: every run after an abort or a stop resumes from the store.
NextRestart ==
    \/ MineBlock
    \/ RunCalled /\ (last_block # None => starting_block' = None)
    \/ Startup
    \/ Crash
    \/ TickHeadError
    \/ TickSkip
    \/ TickStart
    \/ ProcessLockedEvents
    \/ ProcessFulfilledEvents
    \/ ProcessSlashedEvents
    \/ ProcessExpiredRequests
    \/ OtherResolves
    \/ SlashNext
    \/ ProcessExpiredDone
    \/ UpdateLastProcessedBlock
    \/ HandleError

SpecRestart == Init /\ [][NextRestart]_vars

\* C22: a run started without starting_block on a stored cursor resumes at
\* min(stored cursor, head) with attempt = 0; from then on from_block is at
\* most one past the stored cursor, and the cursor moves only in the cursor
\* update of a tick whose three reducers returned Ok on a range that starts
\* at or before the block after the old cursor: no block above the stored
\* cursor is passed by the cursor without having been reduced.
C22_NoBlockSkipped ==
    [][ /\ (pc = "start" /\ pc' = "tick" /\ last_block # None) =>
              /\ starting_block = None
              /\ \E current \in CurrentBlock :
                    from_block' = IF last_block <= current THEN last_block ELSE current
              /\ attempt' = 0
        /\ last_block' # None => from_block' <= last_block' + 1
        /\ last_block' # last_block =>
              /\ pc = "update"
              /\ {"locked", "fulfilled", "slashed"} \subseteq phases
              /\ last_block' = chunk_to
              /\ last_block # None => from_block <= last_block + 1
      ]_vars

\* C22 witness: a run resumed at the stored cursor has reduced a range that
\* goes from the cursor's block to a block past it, and is about to move the
\* cursor.
C22_Witness ==
    /\ pc = "update"
    /\ last_block # None
    /\ from_block = last_block
    /\ chunk_to > last_block
    /\ phases = AllPhases

\* ------------------------------------------------------------------ races
\* The step is our slash of a request another participant has slashed or
\* fulfilled since the pass selected it.
RacedSlashStep == SlashStep /\ raced # "-"

\* The outcomes of a raced slash that name the resolution or have it
\* confirmed by is_slashed.
RaceResolved(o) ==
    \/ o.res \in {"MarketError::RequestIsSlashed", "RequestIsSlashed", "RequestIsFulfilled"}
    \/ /\ o.res \in {"MarketError::SlashRevert", "MarketError::LogNotEmitted"}
       /\ o.is_slashed = "true"

\* C23 as stated: every slash of a request another participant has slashed
\* or fulfilled since the pass selected it removes the row and lets the pass
\* go on without an error (a failing removal in the store aside), so the
\* tick is not counted as failed.
C23_RaceAlwaysResolved ==
    [][RacedSlashStep => (PassContinues \/ RemovalFailed)]_vars

\* C23 amended: a raced slash whose error names the resolution, or whose
\* revert or missing log is_slashed confirms, removes the row and lets the
\* pass go on; a raced slash that reverts or misses its log without is_slashed
\* confirming it keeps the row and ends the pass with SlashRevert or
\* BoundlessMarketError, which run counts as a failure of the tick and never
\* returns as such: only MaxRetries can end run after such a race.
C23_RaceResolvedOrRetried ==
    [][ /\ (RacedSlashStep /\ RaceResolved(outcome')) => (PassContinues \/ RemovalFailed)
        /\ (RacedSlashStep /\ ~RaceResolved(outcome')) =>
              /\ pc' = "error"
              /\ err' \in {"SlashRevert", "BoundlessMarketError"}
              /\ ~Irrecoverable(err')
              /\ orders' = orders
        /\ (HandleErrorStep /\ err \in {"SlashRevert", "BoundlessMarketError"}) =>
              /\ attempt' = attempt + 1
              /\ result' \in {"none", "MaxRetries"}
      ]_vars

\* C23 witness: another participant fulfilled the request after the pass
\* selected it, our slash was mined and reverted, is_slashed answered false:
\* the row is kept and the pass has ended with SlashRevert.
C23_Witness ==
    /\ pc = "error"
    /\ err = "SlashRevert"
    /\ outcome.res = "MarketError::SlashRevert"
    /\ outcome.is_slashed = "false"
    /\ raced = "fulfilled"
    /\ submitted # << >>
    /\ HasOrder(orders, submitted[Len(submitted)])
    /\ attempt = Retries

\* ------------------------------------------------------- the order generator
\* crates/order-generator/src/main.rs, run: the setup and then the submission
\* loop.  args.count is None or a number; i counts the iterations.

\* The loop's exit test as a request was counted one too late.
CountReachedLate(count, i) == count # None /\ i > count

\* `if let Some(count) = args.count { if i >= count { break; } }`
CountReached(count, i) == count # None /\ i >= count

\* run is called with some args.count.
GenStart ==
    /\ gen.pc = "off"
    /\ \E c \in {None} \cup 0..MaxCount :
         gen' = [gen EXCEPT !.pc = "setup", !.count = c]
    /\ UNCHANGED <<inflight, skipped, applied, raced, chainVars, storeVars, pc, starting_block, from_block,
                   chunk_to, attempt, expired, err, result, phases, submitted, outcome>>

\* Client build, upload_program and fetch_url: each `?` returns the error.
GenSetup ==
    /\ gen.pc = "setup"
    /\ \/ gen' = [gen EXCEPT !.pc = "check"]
       \/ gen' = [gen EXCEPT !.pc = "done", !.result = "Err"]
    /\ UNCHANGED <<inflight, skipped, applied, raced, chainVars, storeVars, pc, starting_block, from_block,
                   chunk_to, attempt, expired, err, result, phases, submitted, outcome>>

\* The head of the loop: break once i has reached the count, and return Ok(()).
GenCheck ==
    /\ gen.pc = "check"
    /\ gen.i <= MaxCount
    /\ gen' = IF CountReached(gen.count, gen.i)
              THEN [gen EXCEPT !.pc = "done", !.result = "Ok"]
              ELSE [gen EXCEPT !.pc = "request"]
    /\ UNCHANGED <<inflight, skipped, applied, raced, chainVars, storeVars, pc, starting_block, from_block,
                   chunk_to, attempt, expired, err, result, phases, submitted, outcome>>

\* handle_request: an Err is logged and dropped; i += 1 either way.
GenRequest ==
    /\ gen.pc = "request"
    /\ \E ok \in BOOLEAN :
         gen' = [gen EXCEPT !.pc = "sleep", !.i = @ + 1, !.attempts = @ + 1,
                            !.failed = IF ok THEN @ ELSE @ + 1]
    /\ UNCHANGED <<inflight, skipped, applied, raced, chainVars, storeVars, pc, starting_block, from_block,
                   chunk_to, attempt, expired, err, result, phases, submitted, outcome>>

\* tokio::time::sleep(Duration::from_secs(args.interval))
GenSleep ==
    /\ gen.pc = "sleep"
    /\ gen' = [gen EXCEPT !.pc = "check", !.sleeps = @ + 1]
    /\ UNCHANGED <<inflight, skipped, applied, raced, chainVars, storeVars, pc, starting_block, from_block,
                   chunk_to, attempt, expired, err, result, phases, submitted, outcome>>

GenNext == GenStart \/ GenSetup \/ GenCheck \/ GenRequest \/ GenSleep

SpecGen == Init /\ [][GenNext]_vars

\* C24: with count = n the run makes exactly n submission attempts, each one
\* followed by one sleep of the interval, and then returns Ok; a failed attempt
\* is one of the n and the loop goes on after it; without a count the run never
\* returns once its loop is entered.  (The setup before the loop returns its
\* error with no attempt made.)
C24_CountedAttempts ==
    /\ gen.result = "Ok" =>
         /\ gen.count # None
         /\ gen.attempts = gen.count
         /\ gen.sleeps = gen.count
    /\ gen.result = "Err" => gen.attempts = 0
    /\ gen.pc = "done" <=> gen.result # "none"
    /\ gen.count # None => gen.attempts <= gen.count
    /\ gen.failed <= gen.attempts
    /\ gen.i = gen.attempts
    /\ gen.sleeps = IF gen.pc = "sleep" THEN gen.attempts - 1 ELSE gen.attempts
    /\ (gen.count = None /\ gen.pc \in {"check", "request", "sleep"}) =>
         gen.result = "none"
    /\ (gen.pc = "sleep" /\ gen.failed > 0) => ENABLED GenSleep

\* A run with count = 2 has returned Ok after an attempt failed.
C24_Witness ==
    /\ gen.pc = "done"
    /\ gen.result = "Ok"
    /\ gen.count = 2
    /\ gen.attempts = 2
    /\ gen.failed >= 1

\* ------------------------------------------------------------ phase order
\* The reducer phases of process_blocks.
ReducerPhases == {"locked", "fulfilled", "slashed"}

\* C25: within a tick the phases run in the order Locked reducer, Fulfilled
\* reducer, Slashed reducer, scheduler pass, cursor write, each one entered
\* only when all the phases before it, and only they, have returned Ok in
\* this tick; so a slash has been submitted only in a tick whose three
\* reducers returned Ok, and a tick that failed in a reducer submitted none.
C25_PhaseOrder ==
    /\ pc = "locked"    => phases = {}
    /\ pc = "fulfilled" => phases = {"locked"}
    /\ pc = "slashed"   => phases = {"locked", "fulfilled"}
    /\ pc \in {"expired", "slashing"} => phases = ReducerPhases
    /\ pc = "update"    => phases = AllPhases
    /\ submitted # << >> => ReducerPhases \subseteq phases
    /\ (pc = "error" /\ ~(ReducerPhases \subseteq phases)) =>
          /\ submitted = << >>
          /\ outcome = NoOutcome
          /\ phases \in {{}, {"locked"}, {"locked", "fulfilled"}}

\* C25 witness: the Fulfilled reducer failed after the Locked reducer returned
\* Ok, with a row of the store due at the end of the chunk: no slash was
\* submitted for it.
C25_Witness ==
    /\ pc = "error"
    /\ phases = {"locked"}
    /\ DueBefore(orders, PassTimestamp(chunk_to)) # {}
    /\ submitted = << >>

\* ------------------------------------------------- untracked fulfilments
\* The errors of resolving a fulfilment's timestamp: the log carries neither
\* block_timestamp nor block_number, or block_timestamp(bn) fails or finds no
\* block.
TimestampErrors == {"BlockNumberNotFound", "RpcError", "BlockTimestampNotFound"}

\* Every Fulfilled log of the range of the tick in progress is for a request
\* that has no row in the store.
UntrackedFulfilledOnly ==
    LET ls == QueryLogs("Fulfilled", from_block, chunk_to)
    IN  /\ ls # << >>
        /\ \A k \in 1..Len(ls) : ~HasOrder(orders, ls[k].event.requestId)

\* C26: a Fulfilled event for a request without a row is dropped: when the
\* Fulfilled reducer meets only such events the store is unchanged and the
\* reducer does not fail on resolving an event's timestamp, whatever the log
\* carries and whatever the block lookup would answer.
C26_UntrackedFulfilledDropped ==
    [][ (pc = "fulfilled" /\ UntrackedFulfilledOnly) =>
            /\ orders' = orders
            /\ pc' = "error" => err' \notin TimestampErrors
      ]_vars

\* ------------------------------------------------------- dispatch order
\* Row a is dispatched no later than row b: ascending expires_at, ties by
\* ascending request_id.
DispatchedBefore(store, a, b) ==
    \/ store[a].expires_at < store[b].expires_at
    \/ store[a].expires_at = store[b].expires_at /\ a <= b

\* C27: the scheduler pass dispatches one row at a time, in ascending
\* expires_at with ties by ascending request_id: the list the pass starts
\* from holds each due row once in that order; each submission is of the head
\* of what is left, a row not yet submitted in this tick, made when every row
\* submitted before it in the tick has left the store; and the pass goes on
\* to the next row only with this row removed.
C27_SequentialOrderedDispatch ==
    [][ /\ (pc = "expired" /\ pc' = "slashing") =>
              /\ Range(expired') = DueBefore(orders, BlockTimestamp(chunk_to))
              /\ \A i, j \in 1..Len(expired') :
                    i < j => /\ expired'[i] # expired'[j]
                             /\ DispatchedBefore(orders, expired'[i], expired'[j])
        /\ SlashStep =>
              /\ submitted' = Append(submitted, Head(expired))
              /\ Head(expired) \notin Range(submitted)
              /\ \A q \in Range(expired) : DispatchedBefore(orders, Head(expired), q)
              /\ \A r \in Range(submitted) : ~HasOrder(orders, r)
              /\ pc' = "slashing" => /\ ~HasOrder(orders', Head(expired))
                                     /\ expired' = Tail(expired)
              /\ pc' # "slashing" => /\ pc' \in {"error", "init"}
                                     /\ expired' = << >>
      ]_vars

\* C27 witness: a pass with two due rows has submitted request 2, whose
\* expires_at is the earlier one, removed its row, and has request 1 left.
C27_Witness ==
    /\ pc = "slashing"
    /\ submitted = <<2>>
    /\ expired = <<1>>
    /\ ~HasOrder(orders, 2)
    /\ HasOrder(orders, 1)
    /\ orders[1].expires_at = 2

\* ------------------------------------------------------------ skipped tick
\* The step is an iteration of run's loop that read a head below from_block
\* and went on to the next iteration, the one before having done otherwise.
SkipStep == pc = "tick" /\ ~skipped /\ skipped'

\* C28: an iteration whose head read succeeds with head < from_block is
\* skipped entirely: it happens only for such a head, it queries no events
\* (no phase of process_blocks is entered), writes nothing to the store,
\* submits no slash, and leaves from_block, attempt and the persisted cursor
\* as they were; and an iteration is started on a range only for a head that
\* is not below from_block.
C28_SkippedTickTouchesNothing ==
    [][ /\ SkipStep =>
              /\ \E to_block \in CurrentBlock : to_block < from_block
              /\ pc' = "tick"
              /\ UNCHANGED <<orders, last_block, from_block, attempt, chunk_to, phases,
                             expired, submitted, outcome, err, result>>
        /\ (pc = "tick" /\ pc' = "locked") =>
              \E to_block \in CurrentBlock : to_block >= from_block
      ]_vars

\* C28 witness: with a row in the store and a failed attempt counted, run has
\* just skipped an iteration: the head is below from_block.
C28_Witness ==
    /\ pc = "tick"
    /\ skipped
    /\ head < from_block
    /\ attempt > 0
    /\ orders # EmptyStore
    /\ last_block # None

\* ------------------------------------------------------- transient failure
\* The step is a recoverable failure of an iteration being counted: of the
\* head read, or of process_blocks.
TransientFailureStep ==
    \/ pc = "tick" /\ attempt' = attempt + 1
    \/ HandleErrorStep /\ ~Irrecoverable(err)

\* At the head of run's loop after a failed process_blocks over the range
\* [from_block, chunk_to] that no successful tick has followed.
AfterFailedRange == pc = "tick" /\ attempt > 0 /\ from_block <= chunk_to

\* C29: a transient failure of a tick leaves from_block, the persisted cursor
\* and the store's rows as they were, as does the failing step of
\* process_blocks before it; the range processed next starts at the same
\* from_block and ends at or after the end of the failed range, so that the
\* blocks of the failed range are all in it, unless the head read by the
\* retry is below the end of the failed range, where it ends at that head.
C29_TransientFailureRetriesRange ==
    [][ /\ TransientFailureStep =>
              /\ from_block' = from_block
              /\ last_block' = last_block
              /\ chunk_to' = chunk_to
              /\ orders' = orders
              /\ attempt' = attempt + 1
        /\ (pc # "error" /\ pc' = "error") =>
              /\ from_block' = from_block
              /\ last_block' = last_block
        /\ (AfterFailedRange /\ RangeStep) =>
              /\ from_block' = from_block
              /\ \/ /\ chunk_to' >= chunk_to
                    /\ \A b \in from_block..chunk_to : b \in from_block'..chunk_to'
                 \/ \E to_block \in CurrentBlock :
                       to_block < chunk_to /\ chunk_to' = to_block
      ]_vars

\* C29 witness: a tick over a range with a Locked event in it has failed with
\* a recoverable error that was counted; the chain has moved on, and run is
\* about to process from the same from_block again, the cursor behind it.
C29_Witness ==
    /\ AfterFailedRange
    /\ attempt = 1
    /\ chunk_to >= 1
    /\ head > chunk_to
    /\ \E b \in from_block..chunk_to : b >= 1 /\ logs[b].kind = "Locked"
    /\ last_block # None
    /\ last_block < from_block

\* ------------------------------------------------------ replay below cursor
\* The cursor update of the tick in progress succeeds.
UpdateOk == UpdateLastProcessedBlock /\ pc' = "tick"

\* C30: a replay from a starting_block below the stored cursor completes each
\* of its chunks: when the reducers and the scheduler pass of a chunk have
\* returned Ok and its chunk_to is below the stored cursor, the cursor update
\* of the tick can still succeed.
C30_ReplayBelowCursorCompletes ==
    (pc = "update" /\ phases = AllPhases /\ last_block # None /\ chunk_to < last_block)
        => ENABLED UpdateOk

\* ------------------------------------------------ expiry seen by the market
\* The market's view of request r at the chain tip: it is expired when the
\* tip's timestamp has reached rampUpStart + timeout of the request that was
\* locked (a slash transaction is mined at the tip or later).
ChainExpired(r) ==
    \E b \in 1..head :
        /\ logs[b].kind = "Locked"
        /\ logs[b].requestId = r
        /\ ExpiresAt(logs[b]) <= BlockTimestamp(head)

\* The market answers RequestIsNotExpired only for a request that is not
\* expired at the tip.
ContractAllows(o, r) == o.res = "RequestIsNotExpired" => ~ChainExpired(r)

\* The service against a market that reverts with RequestIsNotExpired only
\* before the request's expiry.
NextContract ==
    \/ MineBlock
    \/ RunCalled
    \/ Startup
    \/ Crash
    \/ TickHeadError
    \/ TickSkip
    \/ TickStart
    \/ ProcessLockedEvents
    \/ ProcessFulfilledEvents
    \/ ProcessSlashedEvents
    \/ ProcessExpiredRequests
    \/ OtherResolves
    \/ SlashNext /\ ContractAllows(outcome', Head(expired))
    \/ ProcessExpiredDone
    \/ UpdateLastProcessedBlock
    \/ HandleError

SpecContract == Init /\ [][NextContract]_vars

\* C31: whenever the scheduler submits slash(request_id), the row's
\* expires_at is at most the timestamp of chunk_to, which is at most the
\* timestamp of the chain tip, and the request is expired for the market; so
\* the market never answers RequestIsNotExpired, the pass never ends with
\* RequestNotExpired and run never returns it.
C31_NeverDispatchedBeforeExpiry ==
    [][ /\ SlashStep =>
              /\ HasOrder(orders, Head(expired))
              /\ orders[Head(expired)].expires_at <= BlockTimestamp(chunk_to)
              /\ BlockTimestamp(chunk_to) <= BlockTimestamp(head)
              /\ ChainExpired(Head(expired))
              /\ outcome'.res # "RequestIsNotExpired"
        /\ err' # "RequestNotExpired"
        /\ result' # "RequestNotExpired"
      ]_vars

\* C31 witness: a slash was submitted, and succeeded, for a request whose
\* expiry is the timestamp of chunk_to, the chain tip: the earliest pass
\* that may dispatch it.
C31_Witness ==
    /\ pc = "slashing"
    /\ Len(submitted) = 1
    /\ outcome.res = "Ok"
    /\ chunk_to = head
    /\ \E b \in 1..head :
          /\ logs[b].kind = "Locked"
          /\ logs[b].requestId = submitted[1]
          /\ ExpiresAt(logs[b]) = BlockTimestamp(chunk_to)
          /\ b < chunk_to

\* ------------------------------------------- timestamp of a Fulfilled log
\* One iteration of the loop of process_fulfilled_events, on every store and
\* every RequestFulfilled log with what the provider returns for it.
ResolveInit ==
    /\ inflight = None
    /\ skipped = FALSE
    /\ gen = NoGen
    /\ orders \in IdemStores
    /\ applied = NoLog
    /\ raced = "-"
    /\ pc = "resolve"
    /\ head = 0
    /\ logs = << >>
    /\ last_block = None
    /\ starting_block = None
    /\ from_block = 0
    /\ chunk_to = 0
    /\ attempt = 0
    /\ expired = << >>
    /\ err = "none"
    /\ result = "none"
    /\ phases = {}
    /\ submitted = << >>
    /\ outcome = NoOutcome

\* The loop body for the log of request r with log data d: the timestamp is
\* resolved, then the row is read and removed when the fulfilment is within
\* the lock; an error of the resolution ends the reducer.
ResolveFulfilled ==
    /\ pc = "resolve"
    /\ \E r \in RequestIds, d \in LogDatas :
          LET current_ts == CurrentTs(d)
          IN  /\ applied' = [event |-> FulfilledEvent(r), log_data |-> d]
              /\ err' = current_ts.err
              /\ orders' = IF current_ts.err = "none"
                           THEN ApplyFulfilled(orders, FulfilledEvent(r), current_ts.ts)
                           ELSE orders
    /\ pc' = "resolved"
    /\ UNCHANGED <<inflight, skipped, gen, raced, chainVars, last_block, starting_block, from_block,
                   chunk_to, attempt, expired, result, phases, submitted, outcome>>

ResolveNext == ResolveFulfilled

SpecResolve == ResolveInit /\ [][ResolveNext]_vars

\* The store after a fulfilment of request r at timestamp ts was applied.
FulfilledAt(store, r, ts) ==
    IF r \in DOMAIN store /\ ts <= store[r].lock_expires_at
    THEN [q \in DOMAIN store \ {r} |-> store[q]]
    ELSE store

\* C32: the reducer compares the row's lock deadline with the timestamp the
\* Fulfilled log carries when it carries one, whatever the block lookup would
\* answer; otherwise with the header timestamp of the log's block; a log with
\* neither timestamp nor block number ends the tick with BlockNumberNotFound,
\* which run returns; a block that is not found ends it with
\* BlockTimestampNotFound, which run counts and retries; in both cases the
\* store is as it was.
C32_FulfilledTimestamp ==
    [][ (pc = "resolve" /\ pc' = "resolved") =>
          LET d == applied'.log_data
              r == applied'.event.requestId
          IN  /\ d.block_timestamp # None =>
                    /\ err' = "none"
                    /\ orders' = FulfilledAt(orders, r, d.block_timestamp)
              /\ (d.block_timestamp = None /\ d.block_number # None /\ d.block = "Some") =>
                    /\ err' = "none"
                    /\ orders' = FulfilledAt(orders, r, BlockTimestamp(d.block_number))
              /\ (d.block_timestamp = None /\ d.block_number = None) =>
                    /\ err' = "BlockNumberNotFound"
                    /\ Irrecoverable(err')
                    /\ orders' = orders
              /\ (d.block_timestamp = None /\ d.block_number # None /\ d.block = "None") =>
                    /\ err' = "BlockTimestampNotFound"
                    /\ ~Irrecoverable(err')
                    /\ orders' = orders
      ]_vars

\* C32 witness: a log carrying a timestamp within the lock, of a block whose
\* own timestamp is past the lock deadline and whose lookup would fail, has
\* removed the row of its request.
C32_Witness ==
    /\ pc = "resolved"
    /\ err = "none"
    /\ applied.log_data.block_timestamp = 1
    /\ applied.log_data.block_number = 2
    /\ applied.log_data.block = "None"
    /\ applied.event.requestId = 1
    /\ ~HasOrder(orders, 1)
    /\ HasOrder(orders, 2)

\* ------------------------------------------------- slash left in flight
\* The process stops in the scheduler pass after boundless_market.slash sent
\* the transaction for the next due request and before remove_order: the
\* row stays, the transaction is left to the chain.
CrashInFlight ==
    /\ pc = "slashing"
    /\ expired # << >>
    /\ raced = "-"
    /\ inflight = None
    /\ head < MaxBlock
    /\ ~Emitted("Slashed", Head(expired))
    /\ ~Emitted("Fulfilled", Head(expired))
    /\ inflight' = Head(expired)
    /\ pc' = "init"
    /\ starting_block' = None
    /\ from_block' = 0
    /\ chunk_to' = 0
    /\ attempt' = 0
    /\ expired' = << >>
    /\ err' = "none"
    /\ result' = "none"
    /\ phases' = {}
    /\ submitted' = << >>
    /\ outcome' = NoOutcome
    /\ skipped' = FALSE
    /\ UNCHANGED <<gen, applied, raced, chainVars, storeVars>>

\* The transaction left in flight is mined: the next block carries the
\* ProverSlashed event of its request.
MineInFlight ==
    /\ inflight # None
    /\ head < MaxBlock
    /\ pc \in {"init", "tick", "done"}
    /\ head' = head + 1
    /\ logs' = Append(logs, SlashedEvent(inflight))
    /\ inflight' = None
    /\ UNCHANGED <<skipped, gen, applied, raced, orders, last_block, pc, starting_block,
                   from_block, chunk_to, attempt, expired, err, result, phases, submitted,
                   outcome>>

\* What slash returns for request r when the market and the node answer for
\* the chain as it is: for a request with a ProverSlashed event the call
\* fails naming the resolution, or its transaction reverts or emits no log
\* and is_slashed answers true; otherwise the slash succeeds.
SettledOutcomes(r) ==
    IF Emitted("Slashed", r)
    THEN {o \in RaceOutcomes("slashed") : o.is_slashed \in {"-", "true"}}
    ELSE {[res |-> "Ok", is_slashed |-> "-"]}

\* The service when chain reads and store operations succeed, a run starts
\* at or after the stored cursor, and slash answers for the chain as it is.
ServiceSettled ==
    \/ RunCalled /\ (last_block # None /\ starting_block' # None => starting_block' >= last_block)
    \/ Startup /\ pc' = "tick" /\ (last_block # None => from_block' >= last_block)
    \/ TickSkip
    \/ TickStart
    \/ ProcessLockedEvents /\ pc' # "error"
    \/ ProcessFulfilledEvents /\ pc' # "error"
    \/ ProcessSlashedEvents /\ pc' # "error"
    \/ ProcessExpiredRequests /\ pc' # "error"
    \/ SlashNext /\ outcome' \in SettledOutcomes(Head(expired)) /\ err' # "DatabaseError"
    \/ ProcessExpiredDone
    \/ UpdateLastProcessedBlock /\ pc' # "error"

NextInFlight ==
    \/ MineBlock /\ inflight = None
    \/ MineInFlight
    \/ CrashInFlight
    \/ ServiceSettled

\* The chain keeps producing blocks, the transaction in flight is mined, and
\* the process, restarted after a stop, keeps ticking.
SpecInFlight ==
    /\ Init
    /\ [][NextInFlight]_vars
    /\ WF_vars(MineBlock /\ inflight = None)
    /\ WF_vars(MineInFlight)
    /\ WF_vars(ServiceSettled)

\* C33: when the process stops with a slash transaction in flight, the row
\* of its request is still in the store at the restart; the row is then
\* eventually removed, with the transaction mined, by the Slashed reducer or
\* by the scheduler's next slash of the request (which finds it slashed, or
\* succeeds before the transaction is mined); and run returns no error on
\* the way.
C33_InFlightSlashReconciled ==
    /\ [][inflight' \notin {None, inflight} => HasOrder(orders', inflight')]_vars
    /\ \A r \in RequestIds :
          (inflight = r) ~> (inflight = None /\ ~HasOrder(orders, r) /\ Emitted("Slashed", r))
    /\ [](result = "none")

\* C33 witness: after a stop with the slash of a request in flight, the
\* restarted run has processed a chunk up to the cursor it wrote, the row is
\* still in the store and its scheduler pass is about to slash the request
\* again, the transaction not yet mined.
C33_Witness ==
    /\ inflight # None
    /\ pc = "slashing"
    /\ expired # << >>
    /\ Head(expired) = inflight
    /\ HasOrder(orders, inflight)
    /\ last_block # None

\* ------------------------------------------------- cursor and from_block
\* The step belongs to one run: it is not the start of run and not a stop of
\* the process.
RunStep == pc \notin {"init", "start"} /\ pc' # "init"

\* The step completes a chunk: process_blocks returned Ok.
ChunkDoneStep == pc = "update" /\ pc' = "tick"

\* C34: within one run, the step that completes a chunk leaves the persisted
\* cursor at from_block - 1 and from_block above its old value; the steps of
\* the run that follow (failures, skipped iterations, the phases of the next
\* chunk) keep the cursor at from_block - 1; and no step of the run lowers
\* from_block.
C34_CursorTracksFromBlock ==
    [][ /\ ChunkDoneStep =>
              /\ last_block' = chunk_to
              /\ last_block' = from_block' - 1
              /\ from_block' > from_block
        /\ (RunStep /\ last_block # None /\ last_block = from_block - 1) =>
              (last_block' # None /\ last_block' = from_block' - 1)
        /\ RunStep => from_block' >= from_block
      ]_vars

\* C34 witness: a run has completed a chunk and then failed on the chunk
\* after it, and the failure was counted: the cursor is still at
\* from_block - 1.
C34_Witness ==
    /\ pc = "tick"
    /\ attempt >= 1
    /\ last_block # None
    /\ last_block = from_block - 1
    /\ from_block >= 2
    /\ chunk_to = from_block

\* ------------------------------------------------------ processed ranges
\* Where process_blocks(from_block, chunk_to) is in progress.
InProcessBlocks == pc \in {"locked", "fulfilled", "slashed", "expired", "slashing", "update"}

\* C35: within one run the successfully processed ranges follow one another
\* without gap or overlap: from_block keeps its startup value until the first
\* range completes and changes only when a range completes; the range handed
\* to process_blocks is [from_block, chunk_to], not empty, and stays the same
\* while process_blocks works on it; and when it completes, the cursor is its
\* chunk_to and the next range starts at chunk_to + 1.  So the completed
\* ranges of a run tile the blocks from the startup from_block to the cursor.
C35_RangesContiguous ==
    [][ /\ (RunStep /\ ~ChunkDoneStep) => from_block' = from_block
        /\ RangeStep => (from_block <= chunk_to' /\ from_block' = from_block)
        /\ (RunStep /\ InProcessBlocks) => chunk_to' = chunk_to
        /\ InProcessBlocks => from_block <= chunk_to
        /\ ChunkDoneStep =>
              /\ phases = AllPhases
              /\ last_block' = chunk_to
              /\ from_block' = chunk_to + 1
      ]_vars

\* C35 witness: a run has completed the range that ends at the cursor and is
\* processing the next one, which starts at the block after the cursor and
\* has more than one block.
C35_Witness ==
    /\ pc = "update"
    /\ last_block # None
    /\ from_block = last_block + 1
    /\ from_block >= 1
    /\ chunk_to > from_block
    /\ phases = AllPhases

\* ------------------------------------------------- head-of-line blocking
\* The requests whose slash comes back with a transient outcome at every
\* attempt.
BlockedRequests == {1}

\* What slash returns in the blocked scenario: a transient outcome for a
\* blocked request, success for the others.
BlockedOutcomes(r) ==
    IF r \in BlockedRequests THEN TransientOutcomes ELSE {[res |-> "Ok", is_slashed |-> "-"]}

\* The service when chain reads and store operations succeed and slash
\* fails for the blocked requests only; run acts on the errors of its ticks.
ServiceBlocked ==
    \/ RunCalled
    \/ Startup /\ pc' = "tick"
    \/ TickSkip
    \/ TickStart
    \/ ProcessLockedEvents /\ pc' # "error"
    \/ ProcessFulfilledEvents /\ pc' # "error"
    \/ ProcessSlashedEvents /\ pc' # "error"
    \/ ProcessExpiredRequests /\ pc' # "error"
    \/ SlashNext /\ outcome' \in BlockedOutcomes(Head(expired)) /\ err' # "DatabaseError"
    \/ ProcessExpiredDone
    \/ UpdateLastProcessedBlock /\ pc' # "error"
    \/ HandleError

NextBlocked == MineBlock \/ ServiceBlocked

SpecBlocked ==
    Init /\ [][NextBlocked]_vars /\ WF_vars(MineBlock) /\ WF_vars(ServiceBlocked)

\* The blocked request b has a row that is due for a pass at chunk_to.
BlockedDue(b) ==
    HasOrder(orders, b) /\ orders[b].expires_at <= PassTimestamp(chunk_to)

\* C36: the scheduler pass ends at the first due row whose slash comes back
\* with a transient outcome: the due rows after it are not submitted in
\* that tick and stay in the store, and nothing is submitted until run has
\* handled the error.  With a row whose slash is transient at every attempt,
\* no chunk whose pass has that row due completes, so the cursor stays
\* behind it, and once the pass has failed at the row run ends up returning
\* MaxRetries, with attempt = retries + 1, unless a reducer removes the row
\* first; the rows after it are not dispatched meanwhile.
C36_HeadOfLineBlocking ==
    /\ [][ /\ (SlashStep /\ outcome' \in TransientOutcomes) =>
                 /\ pc' = "error"
                 /\ expired' = << >>
                 /\ orders' = orders
                 /\ \A q \in Range(Tail(expired)) :
                       HasOrder(orders', q) /\ q \notin Range(submitted')
           /\ pc = "error" => (orders' = orders /\ Len(submitted') <= Len(submitted))
           /\ ChunkDoneStep => \A b \in BlockedRequests : ~BlockedDue(b)
           /\ result' = "MaxRetries" => attempt' = Retries + 1
         ]_vars
    /\ \A b \in BlockedRequests :
          (pc = "error" /\ submitted # << >> /\ submitted[Len(submitted)] = b)
              ~> (result = "MaxRetries" \/ ~HasOrder(orders, b))

\* C36 witness: run has returned MaxRetries with the blocked row and a row
\* due after it both still in the store.
C36_Witness ==
    /\ pc = "done"
    /\ result = "MaxRetries"
    /\ HasOrder(orders, 1)
    /\ HasOrder(orders, 2)
    /\ orders[1].expires_at <= orders[2].expires_at
    /\ orders[2].expires_at <= BlockTimestamp(chunk_to)

\* The slash outcomes the scheduler asks is_slashed about.
ReconciledOutcomes == {"MarketError::SlashRevert", "MarketError::LogNotEmitted"}

\* C37: when the is_slashed query fails after a slash that returned
\* SlashRevert or LogNotEmitted, the row is kept and the pass ends with the
\* market's error, which run counts as a recoverable failure (attempt goes up
\* by one; run returns MaxRetries exactly when the count passes retries, and
\* goes on otherwise); a slash step removes a row only when the outcome is
\* Success or already resolved, or is_slashed answered true, and then only
\* the row of the request it slashed.
C37_FailedReconciliationKeepsRow ==
    [][ /\ (/\ SlashStep
            /\ outcome'.res \in ReconciledOutcomes
            /\ outcome'.is_slashed = "error")
           => /\ orders' = orders
              /\ pc' = "error"
              /\ err' = "BoundlessMarketError"
              /\ ~Irrecoverable(err')
        /\ (HandleErrorStep /\ err = "BoundlessMarketError") =>
              /\ attempt' = attempt + 1
              /\ orders' = orders
              /\ last_block' = last_block
              /\ IF attempt + 1 > Retries
                 THEN pc' = "done" /\ result' = "MaxRetries"
                 ELSE pc' = "tick" /\ result' = "none"
        /\ (SlashStep /\ orders' # orders) =>
              /\ \/ outcome'.res \in ResolvedOutcomes
                 \/ /\ outcome'.res \in ReconciledOutcomes
                    /\ outcome'.is_slashed = "true"
              /\ orders' = RemoveOrder(orders, Head(expired))
      ]_vars

\* C37 witness: a slash reverted, the is_slashed query failed, and the pass
\* has ended with the market's error, the row of the request still stored.
C37_Witness ==
    /\ pc = "error"
    /\ err = "BoundlessMarketError"
    /\ outcome = [res |-> "MarketError::SlashRevert", is_slashed |-> "error"]
    /\ submitted # << >>
    /\ submitted[Len(submitted)] \in DOMAIN orders

====
